---- MODULE Spec2Model ----
(***************************************************************************)
(* Behaviour analytics of the Studyflow admin API (src/api/admin.js):      *)
(* getBehaviorMetrics and the pure aggregation functions it calls.         *)
(*                                                                         *)
(* Time is counted in whole hours since the epoch (UTC).  A calendar date  *)
(* (the first ten characters of Date.toISOString()) is the number of whole *)
(* days since the epoch; the lexicographic order of ISO date strings is    *)
(* the numeric order of these day numbers.  The server's time zone tz is a *)
(* record: local time is UTC plus tz.base hours, and plus tz.delta more    *)
(* from the instant tz.switch on (a daylight-saving transition).           *)
(*                                                                         *)
(* The bucket labels of the source are Chinese strings; the model uses an  *)
(* ASCII key for each, in the source's order.                              *)
(***************************************************************************)
EXTENDS Integers, Sequences, FiniteSets, TLC

\* ------------------------------------------------------------------------
\* Field values of a record as the JavaScript code sees them
\* ------------------------------------------------------------------------
\* start_time / created_at: a non-negative number is a parseable timestamp;
\* the three other values are null, a missing property (undefined) and a
\* non-empty string that Date cannot parse.
NullT == -1
UndefT == -2
BadT == -3

\* duration: a non-negative number, or null/undefined, or a non-numeric string
MissingDur == -1
NonNumericDur == -2

\* user_id: a non-empty string, or null
NoUser == "null"

HoursPerDay == 24

\* JavaScript truthiness of a timestamp field (null and undefined are falsy,
\* every non-empty string is truthy)
Truthy(v) == v >= 0 \/ v = BadT

\* new Date(v) is an Invalid Date for undefined and for an unparseable string;
\* new Date(null) is the epoch
InvalidDate(v) == v \in {UndefT, BadT}
DateMs(v) == IF v = NullT THEN 0 ELSE v

\* Number(v) || 0
NumberOrZero(v) == IF v >= 0 THEN v ELSE 0

\* Date.prototype.toISOString().slice(0,10) of the instant t: the UTC date
toISODate(t) == t \div HoursPerDay

\* A time zone without and with a daylight-saving transition
Zone(base) == [base |-> base, switch |-> 0, delta |-> 0]
DstZone(base, switch, delta) == [base |-> base, switch |-> switch, delta |-> delta]

\* The UTC offset in force at the instant t
offsetAt(t, tz) == IF tz.delta # 0 /\ t >= tz.switch THEN tz.base + tz.delta ELSE tz.base

\* The local wall-clock reading of the instant t, and the instant of a local
\* wall-clock reading (a reading that the transition skips or repeats is
\* taken with the offset in force before the transition)
toLocal(t, tz) == t + offsetAt(t, tz)
fromLocal(l, tz) ==
  LET t1 == l - tz.base
      t2 == l - (tz.base + tz.delta)
  IN IF tz.delta = 0 \/ t1 < tz.switch THEN t1
     ELSE IF t2 >= tz.switch THEN t2 ELSE t1

\* Date.prototype.getHours(): the local hour of day
getHours(t, tz) == toLocal(t, tz) % HoursPerDay

\* d.setDate(d.getDate() - n): same local wall-clock time, n local days back
setDateBack(t, tz, n) == fromLocal(toLocal(t, tz) - n * HoursPerDay, tz)

daysAgo(now, tz, n) == setDateBack(now, tz, n)

\* startOfDay: the instant of local midnight of t's local day
startOfDay(t, tz) == fromLocal(toLocal(t, tz) - (toLocal(t, tz) % HoursPerDay), tz)

\* startOfDay(v).toISOString().slice(0,10): the bucket key of a record
dayKey(v, tz) == toISODate(startOfDay(DateMs(v), tz))

\* Array.from({length:n}, (_,i) => date of now minus (n-1-i) days)
windowLabels(now, tz, n) ==
  [i \in 1..n |-> toISODate(setDateBack(now, tz, (n - 1) - (i - 1)))]

WindowLen == 30

\* ------------------------------------------------------------------------
\* Loops over arrays and Maps
\* ------------------------------------------------------------------------
RECURSIVE SumSeq(_)
SumSeq(s) == IF s = <<>> THEN 0 ELSE Head(s) + SumSeq(Tail(s))

RECURSIVE SumFn(_)
SumFn(f) ==
  IF DOMAIN f = {} THEN 0
  ELSE LET k == CHOOSE x \in DOMAIN f : TRUE
       IN f[k] + SumFn([x \in DOMAIN f \ {k} |-> f[x]])

RECURSIVE SortSet(_)
SortSet(S) ==
  IF S = {} THEN <<>>
  ELSE LET m == CHOOSE x \in S : \A y \in S : x <= y
       IN <<m>> \o SortSet(S \ {m})

Max(a, b) == IF a >= b THEN a ELSE b

\* groupByUser without `if (!session.user_id) continue`: rows without a
\* user_id are grouped under the key null
RECURSIVE groupByUserKeepNull(_)
groupByUserKeepNull(sessions) ==
  IF sessions = <<>> THEN [u \in {} |-> <<>>]
  ELSE LET n == Len(sessions)
           m == groupByUserKeepNull(SubSeq(sessions, 1, n - 1))
           s == sessions[n]
       IN [u \in DOMAIN m \cup {s.user_id} |->
             IF u = s.user_id
             THEN (IF u \in DOMAIN m THEN m[u] ELSE <<>>) \o <<s>>
             ELSE m[u]]

\* Map user_id -> array of that user's sessions, skipping rows without user_id
RECURSIVE groupByUser(_)
groupByUser(sessions) ==
  IF sessions = <<>> THEN [u \in {} |-> <<>>]
  ELSE LET n == Len(sessions)
           m == groupByUser(SubSeq(sessions, 1, n - 1))
           s == sessions[n]
       IN IF s.user_id = NoUser THEN m
          ELSE [u \in DOMAIN m \cup {s.user_id} |->
                  IF u = s.user_id
                  THEN (IF u \in DOMAIN m THEN m[u] ELSE <<>>) \o <<s>>
                  ELSE m[u]]

\* ------------------------------------------------------------------------
\* calculateDailyTrend
\* ------------------------------------------------------------------------
DailyTrendThrows(data) ==
  \E i \in 1..Len(data) : Truthy(data[i].created_at) /\ InvalidDate(data[i].created_at)

RECURSIVE trendByDay(_, _)
trendByDay(data, tz) ==
  IF data = <<>> THEN [k \in {} |-> 0]
  ELSE LET n == Len(data)
           m == trendByDay(SubSeq(data, 1, n - 1), tz)
           item == data[n]
       IN IF ~Truthy(item.created_at) THEN m
          ELSE LET k == dayKey(item.created_at, tz)
               IN [x \in DOMAIN m \cup {k} |->
                     IF x = k THEN (IF k \in DOMAIN m THEN m[k] ELSE 0) + 1
                     ELSE m[x]]

\* calculateDailyTrend with byDay.set(k, 1) in place of the increment
calculateDailyTrendPresence(data, labels, tz) ==
  LET byDay == trendByDay(data, tz)
  IN [j \in DOMAIN labels |-> IF labels[j] \in DOMAIN byDay THEN 1 ELSE 0]

calculateDailyTrend(data, labels, tz) ==
  LET byDay == trendByDay(data, tz)
  IN [j \in DOMAIN labels |->
        IF labels[j] \in DOMAIN byDay THEN byDay[labels[j]] ELSE 0]

\* ------------------------------------------------------------------------
\* calculateUserEngagement
\* ------------------------------------------------------------------------
EngagementKeys == {"high", "medium", "low", "inactive"}

\* engagementTier with > in place of >= in the first test
engagementTierStrict(sessionCount) ==
  IF sessionCount > 12 THEN "high"
  ELSE IF sessionCount >= 4 THEN "medium"
  ELSE IF sessionCount >= 1 THEN "low"
  ELSE "inactive"

engagementTier(sessionCount) ==
  IF sessionCount >= 12 THEN "high"
  ELSE IF sessionCount >= 4 THEN "medium"
  ELSE IF sessionCount >= 1 THEN "low"
  ELSE "inactive"

\* for (const [userId, sessions] of map.entries()) counters[classOf(...)]++
RECURSIVE tally(_, _, _)
tally(classOf, users, counters) ==
  IF users = {} THEN counters
  ELSE LET u == CHOOSE x \in users : TRUE
       IN tally(classOf, users \ {u}, [counters EXCEPT ![classOf[u]] = @ + 1])

calculateUserEngagement(sessions) ==
  LET userSessionMap == groupByUser(sessions)
      engagementLevels == [k \in EngagementKeys |-> 0]
  IN tally([u \in DOMAIN userSessionMap |-> engagementTier(Len(userSessionMap[u]))],
           DOMAIN userSessionMap, engagementLevels)

\* ------------------------------------------------------------------------
\* calculateSessionFrequency
\* ------------------------------------------------------------------------
FrequencyKeys == {"1-2", "3-5", "6-10", "11-20", "20+"}

\* frequencyBucket with < in place of <= in the last test
frequencyBucketStrict(count) ==
  IF count <= 2 THEN "1-2"
  ELSE IF count <= 5 THEN "3-5"
  ELSE IF count <= 10 THEN "6-10"
  ELSE IF count < 20 THEN "11-20"
  ELSE "20+"

frequencyBucket(count) ==
  IF count <= 2 THEN "1-2"
  ELSE IF count <= 5 THEN "3-5"
  ELSE IF count <= 10 THEN "6-10"
  ELSE IF count <= 20 THEN "11-20"
  ELSE "20+"

RECURSIVE userSessionCount(_)
userSessionCount(sessions) ==
  IF sessions = <<>> THEN [u \in {} |-> 0]
  ELSE LET n == Len(sessions)
           m == userSessionCount(SubSeq(sessions, 1, n - 1))
           u == sessions[n].user_id
       IN IF u = NoUser THEN m
          ELSE [x \in DOMAIN m \cup {u} |->
                  IF x = u THEN (IF u \in DOMAIN m THEN m[u] ELSE 0) + 1 ELSE m[x]]

calculateSessionFrequency(sessions) ==
  LET counts == userSessionCount(sessions)
      frequency == [k \in FrequencyKeys |-> 0]
  IN tally([u \in DOMAIN counts |-> frequencyBucket(counts[u])], DOMAIN counts, frequency)

\* ------------------------------------------------------------------------
\* calculateSessionDepth
\* ------------------------------------------------------------------------
DurationKeys == {"0-5", "5-15", "15-30", "30-60", "60+"}
TimeOfDayKeys == {"night", "morning", "afternoon", "evening"}
IntensityKeys == {"shortFrequent", "longInfrequent", "balanced", "shallow"}

SecondsPerMinute == 60

\* A variant that compares duration / 60 without Math.floor
durationBucketNoFloor(duration) ==
  LET seconds == NumberOrZero(duration)
  IN IF seconds <= 5 * SecondsPerMinute THEN "0-5"
     ELSE IF seconds <= 15 * SecondsPerMinute THEN "5-15"
     ELSE IF seconds <= 30 * SecondsPerMinute THEN "15-30"
     ELSE IF seconds <= 60 * SecondsPerMinute THEN "30-60"
     ELSE "60+"

durationBucket(duration) ==
  LET minutes == NumberOrZero(duration) \div SecondsPerMinute
  IN IF minutes <= 5 THEN "0-5"
     ELSE IF minutes <= 15 THEN "5-15"
     ELSE IF minutes <= 30 THEN "15-30"
     ELSE IF minutes <= 60 THEN "30-60"
     ELSE "60+"

\* A variant whose quadrants include their upper hour
timeOfDayBucketInclusive(start_time, tz) ==
  IF InvalidDate(start_time) THEN "evening"
  ELSE LET hour == getHours(DateMs(start_time), tz)
       IN IF hour >= 0 /\ hour <= 6 THEN "night"
          ELSE IF hour > 6 /\ hour <= 12 THEN "morning"
          ELSE IF hour > 12 /\ hour <= 18 THEN "afternoon"
          ELSE "evening"

\* new Date(start_time).getHours() is NaN for an Invalid Date: every
\* comparison is false and the final else counts the session
timeOfDayBucket(start_time, tz) ==
  IF InvalidDate(start_time) THEN "evening"
  ELSE LET hour == getHours(DateMs(start_time), tz)
       IN IF hour >= 0 /\ hour < 6 THEN "night"
          ELSE IF hour >= 6 /\ hour < 12 THEN "morning"
          ELSE IF hour >= 12 /\ hour < 18 THEN "afternoon"
          ELSE "evening"

\* for (const session of sessions) counters[key of session]++, where keys[i]
\* is the key of session i and Skip marks a session the loop does not count
Skip == "skip"

RECURSIVE countSessions(_, _)
countSessions(keys, counters) ==
  IF keys = <<>> THEN counters
  ELSE countSessions(Tail(keys),
                     IF Head(keys) = Skip THEN counters
                     ELSE [counters EXCEPT ![Head(keys)] = @ + 1])

\* userDaysOf without the `if (session.start_time)` guard
RECURSIVE userDaysOfNoGuard(_)
userDaysOfNoGuard(sessions) ==
  IF sessions = <<>> THEN [u \in {} |-> {}]
  ELSE LET n == Len(sessions)
           m == userDaysOfNoGuard(SubSeq(sessions, 1, n - 1))
           s == sessions[n]
       IN IF s.user_id = NoUser THEN m
          ELSE [u \in DOMAIN m \cup {s.user_id} |->
                  IF u = s.user_id
                  THEN (IF u \in DOMAIN m THEN m[u] ELSE {}) \cup {toISODate(DateMs(s.start_time))}
                  ELSE m[u]]

\* userDays: Map user_id -> Set of ISO dates of the user's sessions
RECURSIVE userDaysOf(_)
userDaysOf(sessions) ==
  IF sessions = <<>> THEN [u \in {} |-> {}]
  ELSE LET n == Len(sessions)
           m == userDaysOf(SubSeq(sessions, 1, n - 1))
           s == sessions[n]
       IN IF s.user_id = NoUser \/ ~Truthy(s.start_time) THEN m
          ELSE [u \in DOMAIN m \cup {s.user_id} |->
                  IF u = s.user_id
                  THEN (IF u \in DOMAIN m THEN m[u] ELSE {}) \cup {toISODate(DateMs(s.start_time))}
                  ELSE m[u]]

uniqueDaysOf(sessions) ==
  {toISODate(DateMs(sessions[i].start_time)) :
     i \in {j \in 1..Len(sessions) : Truthy(sessions[j].start_time)}}

\* A variant that cuts the quotient off after two decimals
toFixed2Floor(a, b) == (100 * a) \div b

\* avgSessionsPerDay is the string (a / b).toFixed(2) when there is an active
\* day (fixed = TRUE) and the number 0 otherwise.
\* (a / b).toFixed(2), as a number of hundredths (round half up)
toFixed2(a, b) == (200 * a + b) \div (2 * b)

\* streakLoop without the reset of currentConsecutive after a gap
RECURSIVE streakLoopNoReset(_, _, _, _)
streakLoopNoReset(dates, i, currentConsecutive, maxUserConsecutive) ==
  IF i > Len(dates) THEN maxUserConsecutive
  ELSE LET diffDays == dates[i] - dates[i - 1]
       IN IF diffDays = 1
          THEN streakLoopNoReset(dates, i + 1, currentConsecutive + 1,
                                 Max(maxUserConsecutive, currentConsecutive + 1))
          ELSE streakLoopNoReset(dates, i + 1, currentConsecutive, maxUserConsecutive)

\* the inner loop over the sorted dates of one user, from index i on
RECURSIVE streakLoop(_, _, _, _)
streakLoop(dates, i, currentConsecutive, maxUserConsecutive) ==
  IF i > Len(dates) THEN maxUserConsecutive
  ELSE LET diffDays == dates[i] - dates[i - 1]
       IN IF diffDays = 1
          THEN streakLoop(dates, i + 1, currentConsecutive + 1,
                          Max(maxUserConsecutive, currentConsecutive + 1))
          ELSE IF diffDays > 1
          THEN streakLoop(dates, i + 1, 1, maxUserConsecutive)
          ELSE streakLoop(dates, i + 1, currentConsecutive, maxUserConsecutive)

RECURSIVE maxConsecutiveOf(_, _, _)
maxConsecutiveOf(userDays, users, maxConsecutive) ==
  IF users = {} THEN maxConsecutive
  ELSE LET u == CHOOSE x \in users : TRUE
           dates == SortSet(userDays[u])
       IN maxConsecutiveOf(userDays, users \ {u},
                           Max(maxConsecutive, streakLoop(dates, 2, 1, 1)))

\* intensityClass with > in place of >= in the first test
intensityClassStrict(userSessionsList) ==
  LET sessionCount == Len(userSessionsList)
      totalDuration == SumSeq([i \in 1..sessionCount |->
                                 NumberOrZero(userSessionsList[i].duration)])
  IN IF totalDuration < 300 * sessionCount /\ sessionCount > 10 THEN "shortFrequent"
     ELSE IF totalDuration >= 600 * sessionCount /\ sessionCount < 5 THEN "longInfrequent"
     ELSE IF totalDuration >= 300 * sessionCount /\ sessionCount >= 5 THEN "balanced"
     ELSE "shallow"

\* totalDuration / sessionCount compared with a threshold, on exact rationals
intensityClass(userSessionsList) ==
  LET sessionCount == Len(userSessionsList)
      totalDuration == SumSeq([i \in 1..sessionCount |->
                                 NumberOrZero(userSessionsList[i].duration)])
  IN IF totalDuration < 300 * sessionCount /\ sessionCount >= 10 THEN "shortFrequent"
     ELSE IF totalDuration >= 600 * sessionCount /\ sessionCount < 5 THEN "longInfrequent"
     ELSE IF totalDuration >= 300 * sessionCount /\ sessionCount >= 5 THEN "balanced"
     ELSE "shallow"

\* toISOString() of an Invalid Date throws a RangeError (lines 685 and 698)
SessionDepthThrows(sessions) ==
  \E i \in 1..Len(sessions) :
     Truthy(sessions[i].start_time) /\ InvalidDate(sessions[i].start_time)

calculateSessionDepth(sessions, tz) ==
  LET durKeys == [i \in 1..Len(sessions) |-> durationBucket(sessions[i].duration)]
      todKeys == [i \in 1..Len(sessions) |->
                    IF Truthy(sessions[i].start_time)
                    THEN timeOfDayBucket(sessions[i].start_time, tz) ELSE Skip]
      userSessions == groupByUser(sessions)
      userDays == userDaysOf(sessions)
      totalSessions == Len(sessions)
      uniqueDays == uniqueDaysOf(sessions)
  IN [durationDistribution |->
        countSessions(durKeys, [k \in DurationKeys |-> 0]),
      timeOfDayDistribution |->
        countSessions(todKeys, [k \in TimeOfDayKeys |-> 0]),
      sessionIntensity |->
        tally([u \in DOMAIN userSessions |-> intensityClass(userSessions[u])],
              DOMAIN userSessions, [k \in IntensityKeys |-> 0]),
      avgSessionsPerDay |->
        IF Cardinality(uniqueDays) > 0
        THEN [fixed |-> TRUE, hundredths |-> toFixed2(totalSessions, Cardinality(uniqueDays))]
        ELSE [fixed |-> FALSE, hundredths |-> 0],
      maxConsecutiveDays |-> maxConsecutiveOf(userDays, DOMAIN userDays, 0)]

\* ------------------------------------------------------------------------
\* State
\* ------------------------------------------------------------------------
VARIABLES
  now,            \* the server clock (hours since the epoch)
  tz,             \* the server's time zone
  sessions,       \* argument of calculateUserEngagement/Frequency/SessionDepth
  data,           \* argument of calculateDailyTrend
  labels,         \* argument of calculateDailyTrend
  retEngagement,  \* what calculateUserEngagement returned
  retFrequency,   \* what calculateSessionFrequency returned
  retDepth,       \* what calculateSessionDepth returned
  retTrend,       \* what calculateDailyTrend returned
  role,           \* argument of getBehaviorMetrics
  tables,         \* what the database holds for each query of getBehaviorMetrics
  pc,             \* position of the getBehaviorMetrics call
  rows,           \* getBehaviorMetrics: the role-filtered session rows
  partial,        \* getBehaviorMetrics: values computed before the feature fetch
  caught,         \* getBehaviorMetrics: what its catch block caught
  result,         \* what getBehaviorMetrics returned
  calls,          \* two getBehaviorMetrics calls in flight at once
  cleanup,        \* a doCleanup call and the tables it works on
  dedupe,         \* a doDedupe call and the homework table
  restore,        \* a /backup/restore request and the writes it made
  gemini,         \* a postGeminiWithRetry call
  banner          \* the banner stores and a set/get pair of calls

engineVars == <<sessions, data, labels, retEngagement, retFrequency, retDepth, retTrend>>
handlerVars == <<role, tables, pc, rows, partial, caught, result>>
otherVars == <<calls, cleanup, dedupe, restore, gemini, banner>>
vars == <<now, tz, engineVars, handlerVars, otherVars>>

NotCalled == [status |-> "none"]

\* the object {}
EmptyObject == [k \in {} |-> 0]

Row(u, d, t) == [user_id |-> u, duration |-> d, start_time |-> t]
Item(u, t) == [user_id |-> u, created_at |-> t]

\* ------------------------------------------------------------------------
\* Bounds and input sets
\* ------------------------------------------------------------------------
\* a day number in the model's present
Day0 == 100
TzSet == {Zone(-5), Zone(0), Zone(8)}
NowSet == {Day0 * HoursPerDay + 3, Day0 * HoursPerDay + 21}

\* Clocks of the handler: every fixed zone at both times of day, and two
\* zones whose daylight-saving transition lies DstDaysBack days before now
\* (clocks forward at 01:00 UTC in a UTC+1 zone, back at 01:00 UTC in a
\* zone that is on UTC+2 until then)
DstDaysBack == 8
DstClocks ==
  {<<Day0 * HoursPerDay + 23, DstZone(1, (Day0 - DstDaysBack) * HoursPerDay + 1, 1)>>,
   <<Day0 * HoursPerDay, DstZone(2, (Day0 - DstDaysBack) * HoursPerDay + 1, -1)>>}
Clocks == (NowSet \X TzSet) \cup DstClocks

\* streak inputs: user u1 has sessions on any subset of the days
\* Day0-StreakSpan .. Day0, user u2 on any subset of two earlier days
StreakSpan == 5
\* per-user inputs: user u1 has 0..MaxCount sessions
MaxCount == 21
\* calculateDailyTrend inputs: at most MaxData records
MaxData == 3

Reverse(s) == [i \in 1..Len(s) |-> s[Len(s) + 1 - i]]

\* one session of user u on each day of S (ascending), at hour h, d seconds long
DaySessions(u, S, h, d) ==
  LET days == SortSet(S)
  IN [i \in 1..Len(days) |-> Row(u, d, days[i] * HoursPerDay + h)]

DepthExtras ==
  {"none", "duplicate", "nouser", "nullstart", "undefstart", "reversed", "badstart"}

DepthInput(S1, S2, h, extra) ==
  LET base == DaySessions("u1", {Day0 - k : k \in S1}, h, 400)
                \o DaySessions("u2", {Day0 - 10 - k : k \in S2}, h, 4000)
  IN CASE extra = "none" -> base
       [] extra = "duplicate" ->
            base \o DaySessions("u1", {Day0 - k : k \in S1}, (h + 12) % HoursPerDay, 100)
       [] extra = "nouser" ->
            base \o <<Row(NoUser, 100, (Day0 + 1) * HoursPerDay + h)>>
       [] extra = "nullstart" -> <<Row("u1", MissingDur, NullT)>> \o base
       [] extra = "undefstart" -> base \o <<Row("u2", NonNumericDur, UndefT)>>
       [] extra = "reversed" -> Reverse(base)
       [] extra = "badstart" -> base \o <<Row("u2", 100, BadT)>>

DepthInputs ==
  {DepthInput(S1, S2, h, extra) :
     S1 \in SUBSET (0..StreakSpan), S2 \in SUBSET (0..1), h \in {1, 13}, extra \in DepthExtras}

DurSet == {100, 200, 299, 300, 400, 599, 600, 700}
OtherUserSet == {<<0, 0>>, <<15, 200>>, <<3, 700>>, <<6, 400>>, <<2, 100>>}

\* c sessions of user u, each d seconds long, on successive hours; with
\* firstMissing the first of them has no duration
CountSessions(u, c, d, firstMissing) ==
  [i \in 1..c |-> Row(u, IF firstMissing /\ i = 1 THEN MissingDur ELSE d,
                      (Day0 - (i % 3)) * HoursPerDay + (i % HoursPerDay))]

UsersInput(c1, d1, firstMissing, other, anon) ==
  CountSessions("u1", c1, d1, firstMissing)
    \o (IF anon THEN <<Row(NoUser, d1, Day0 * HoursPerDay)>> ELSE <<>>)
    \o CountSessions("u2", other[1], other[2], FALSE)

UsersInputs ==
  {UsersInput(c1, d1, fm, other, anon) :
     c1 \in 0..MaxCount, d1 \in DurSet, fm \in BOOLEAN, other \in OtherUserSet,
     anon \in BOOLEAN}

\* created_at values of feature records, relative to the clock
CreatedAtSet(n) ==
  {NullT, UndefT, BadT, n, n - 4, n - HoursPerDay, n - 29 * HoursPerDay - 4,
   n - 30 * HoursPerDay}

RECURSIVE SeqsUpTo(_, _)
SeqsUpTo(S, n) ==
  IF n = 0 THEN {<<>>}
  ELSE LET shorter == SeqsUpTo(S, n - 1)
       IN shorter \cup {Append(q, x) : q \in {r \in shorter : Len(r) = n - 1}, x \in S}

TrendInputs(n) == SeqsUpTo({Item("u1", t) : t \in CreatedAtSet(n)}, MaxData)

\* ------------------------------------------------------------------------
\* The pure functions, called on their own
\* ------------------------------------------------------------------------
\* No other operation of the server is under way
OthersIdle ==
  /\ calls = NotCalled
  /\ cleanup = NotCalled
  /\ dedupe = NotCalled
  /\ restore = NotCalled
  /\ gemini = NotCalled
  /\ banner = NotCalled

HandlerIdle ==
  /\ role = "all"
  /\ tables = EmptyObject
  /\ pc = "idle"
  /\ rows = <<>>
  /\ partial = NotCalled
  /\ caught = "none"
  /\ result = NotCalled

NothingReturned ==
  /\ retEngagement = NotCalled
  /\ retFrequency = NotCalled
  /\ retDepth = NotCalled
  /\ retTrend = NotCalled

CallUserEngagement ==
  /\ retEngagement = NotCalled
  /\ pc = "idle"
  /\ retEngagement' = [status |-> "ok", value |-> calculateUserEngagement(sessions)]
  /\ UNCHANGED <<otherVars, now, tz, sessions, data, labels, retFrequency, retDepth, retTrend, handlerVars>>

CallSessionFrequency ==
  /\ retFrequency = NotCalled
  /\ pc = "idle"
  /\ retFrequency' = [status |-> "ok", value |-> calculateSessionFrequency(sessions)]
  /\ UNCHANGED <<otherVars, now, tz, sessions, data, labels, retEngagement, retDepth, retTrend, handlerVars>>

CallSessionDepth ==
  /\ retDepth = NotCalled
  /\ pc = "idle"
  /\ retDepth' = IF SessionDepthThrows(sessions) THEN [status |-> "threw"]
                 ELSE [status |-> "ok", value |-> calculateSessionDepth(sessions, tz)]
  /\ UNCHANGED <<otherVars, now, tz, sessions, data, labels, retEngagement, retFrequency, retTrend, handlerVars>>

CallDailyTrend ==
  /\ retTrend = NotCalled
  /\ pc = "idle"
  /\ retTrend' = IF DailyTrendThrows(data) THEN [status |-> "threw"]
                 ELSE [status |-> "ok", value |-> calculateDailyTrend(data, labels, tz)]
  /\ UNCHANGED <<otherVars, now, tz, sessions, data, labels, retEngagement, retFrequency, retDepth, handlerVars>>

InitDepth ==
  /\ now \in NowSet
  /\ tz \in TzSet
  /\ sessions \in DepthInputs
  /\ data = <<>>
  /\ labels = <<>>
  /\ NothingReturned
  /\ OthersIdle
  /\ HandlerIdle

NextDepth == CallSessionDepth \/ CallSessionFrequency

SpecDepth == InitDepth /\ [][NextDepth]_vars

InitUsers ==
  /\ now = Day0 * HoursPerDay + 21
  /\ tz = Zone(0)
  /\ sessions \in UsersInputs
  /\ data = <<>>
  /\ labels = <<>>
  /\ NothingReturned
  /\ OthersIdle
  /\ HandlerIdle

NextUsers == CallUserEngagement \/ CallSessionFrequency \/ CallSessionDepth

SpecUsers == InitUsers /\ [][NextUsers]_vars

InitTrend ==
  /\ now \in NowSet
  /\ tz \in TzSet
  /\ sessions = <<>>
  /\ data \in TrendInputs(now)
  /\ labels = windowLabels(now, tz, WindowLen)
  /\ NothingReturned
  /\ OthersIdle
  /\ HandlerIdle

NextTrend == CallDailyTrend

SpecTrend == InitTrend /\ [][NextTrend]_vars

\* calculateSessionDepth on sessions whose durations lie on both sides of
\* every bucket limit and whose start hours lie on both sides of every
\* quadrant limit (at UTC; the other zones shift them)
MaxBucketRows == 2
BucketPool(n) ==
  LET d == (n \div HoursPerDay - 1) * HoursPerDay
  IN {Row("u1", MissingDur, NullT), Row("u1", 0, d), Row("u2", 300, d + 5),
      Row("u1", 359, d + 6), Row("u2", 360, d + 11), Row("u1", 959, d + 12),
      Row("u2", 960, d + 17), Row("u1", 1859, d + 18), Row("u2", 1860, d + 23),
      Row("u1", 3659, UndefT), Row("u2", 3660, d - 24), Row(NoUser, 7200, d - 18)}

InitBuckets ==
  /\ now \in NowSet
  /\ tz \in TzSet
  /\ sessions \in SeqsUpTo(BucketPool(now), MaxBucketRows)
  /\ data = <<>>
  /\ labels = <<>>
  /\ NothingReturned
  /\ OthersIdle
  /\ HandlerIdle

NextBuckets == CallSessionDepth

SpecBuckets == InitBuckets /\ [][NextBuckets]_vars

\* ------------------------------------------------------------------------
\* getBehaviorMetrics
\* ------------------------------------------------------------------------
\* A query response: outcome "data" is {data: rows, error: null}, "error" is
\* {data: null, error: ...}, and "reject" is a rejected promise.
Resp(outcome, rs) == [outcome |-> outcome, data |-> rs]

\* r.data || []
DataOrEmpty(resp) == IF resp.outcome = "data" THEN resp.data ELSE <<>>

Features == <<"homework", "exams", "notes", "flashcards", "pomodoro">>
FeatureNames == {Features[i] : i \in 1..Len(Features)}
UsageLabels == <<"tasks", "examPlanning", "notes", "flashcards", "pomodoro">>

\* Math.round(a / b) for a >= 0, b > 0
round(a, b) == (2 * a + b) \div (2 * b)

filterRole(roleArg, rs, profilesResp) ==
  IF roleArg = "all" THEN rs
  ELSE LET profiles == DataOrEmpty(profilesResp)
           ids == {profiles[i].id : i \in {j \in 1..Len(profiles) : profiles[j].role = roleArg}}
           hasRole(r) == r.user_id \in ids
       IN SelectSeq(rs, hasRole)

\* A variant whose comparison is turned round (sessions up to the cutoff)
distinctUsersBefore(rs, since) ==
  Cardinality({rs[i].user_id :
                 i \in {j \in 1..Len(rs) : /\ ~InvalidDate(rs[j].start_time)
                                           /\ DateMs(rs[j].start_time) <= since}})

\* new Date(r.start_time) >= new Date(sinceIso) is false for an Invalid Date
distinctUsers(rs, since) ==
  Cardinality({rs[i].user_id :
                 i \in {j \in 1..Len(rs) : /\ ~InvalidDate(rs[j].start_time)
                                           /\ DateMs(rs[j].start_time) >= since}})

durationsOf(rs) == [i \in 1..Len(rs) |-> NumberOrZero(rs[i].duration)]

\* A variant that takes the first positive duration for the minimum
sessionStatsOfFirst(rs) ==
  LET positive(d) == d > 0
      sessionDurations == SelectSeq(durationsOf(rs), positive)
      vals == {sessionDurations[i] : i \in 1..Len(sessionDurations)}
  IN [avg |-> IF Len(rs) > 0 THEN round(SumSeq(durationsOf(rs)), Len(rs)) ELSE 0,
      min |-> IF vals # {} THEN sessionDurations[1] ELSE 0,
      max |-> IF vals # {} THEN CHOOSE x \in vals : \A y \in vals : x >= y ELSE 0,
      total |-> SumSeq(sessionDurations)]

\* A variant without the length guards of lines 408-409: Math.min() of no
\* arguments is Infinity and Math.max() is -Infinity (a large and a
\* negative value here)
sessionStatsOfNoGuard(rs) ==
  LET positive(d) == d > 0
      sessionDurations == SelectSeq(durationsOf(rs), positive)
      vals == {sessionDurations[i] : i \in 1..Len(sessionDurations)}
  IN [avg |-> IF Len(rs) > 0 THEN round(SumSeq(durationsOf(rs)), Len(rs)) ELSE 0,
      min |-> IF vals # {} THEN CHOOSE x \in vals : \A y \in vals : x <= y ELSE 2 ^ 30,
      max |-> IF vals # {} THEN CHOOSE x \in vals : \A y \in vals : x >= y ELSE 0 - 2 ^ 30,
      total |-> SumSeq(sessionDurations)]

sessionStatsOf(rs) ==
  LET positive(d) == d > 0
      sessionDurations == SelectSeq(durationsOf(rs), positive)
      vals == {sessionDurations[i] : i \in 1..Len(sessionDurations)}
  IN [avg |-> IF Len(rs) > 0 THEN round(SumSeq(durationsOf(rs)), Len(rs)) ELSE 0,
      min |-> IF vals # {} THEN CHOOSE x \in vals : \A y \in vals : x <= y ELSE 0,
      max |-> IF vals # {} THEN CHOOSE x \in vals : \A y \in vals : x >= y ELSE 0,
      total |-> SumSeq(sessionDurations)]

\* line 418: toISOString() of an Invalid Date throws a RangeError
ByDayThrows(rs) == \E i \in 1..Len(rs) : InvalidDate(rs[i].start_time)

\* sessionsByDay.get(k) || []
sessionsOfDay(rs, tzArg, k) ==
  LET onDay(r) == dayKey(r.start_time, tzArg) = k
  IN SelectSeq(rs, onDay)

sessionMetrics(rs, nowArg, tzArg) ==
  LET lbls == windowLabels(nowArg, tzArg, WindowLen)
      daySessions(k) == sessionsOfDay(rs, tzArg, k)
  IN [status |-> "ok",
      dau |-> distinctUsers(rs, daysAgo(nowArg, tzArg, 1)),
      wau |-> distinctUsers(rs, daysAgo(nowArg, tzArg, 7)),
      mau |-> distinctUsers(rs, daysAgo(nowArg, tzArg, 30)),
      sessionStats |-> sessionStatsOf(rs),
      labels |-> lbls,
      active30 |-> [i \in 1..WindowLen |->
                      Cardinality({daySessions(lbls[i])[j].user_id :
                                     j \in 1..Len(daySessions(lbls[i]))})],
      sessions30 |-> [i \in 1..WindowLen |-> Len(daySessions(lbls[i]))],
      avgDuration30 |-> [i \in 1..WindowLen |->
                           IF Len(daySessions(lbls[i])) > 0
                           THEN round(SumSeq(durationsOf(daySessions(lbls[i]))),
                                      Len(daySessions(lbls[i])))
                           ELSE 0]]

Zeros(n) == [i \in 1..n |-> 0]

\* the object the catch block returns (lines 526-547)
defaultResult ==
  [isDefault |-> TRUE,
   dau |-> 0, wau |-> 0, mau |-> 0, avgSessionMin |-> 0,
   sessionStats |-> [avg |-> 0, min |-> 0, max |-> 0, total |-> 0],
   retentionD1 |-> 0,
   active30 |-> Zeros(30), sessions30 |-> Zeros(30), avgDuration30 |-> Zeros(30),
   featureUsage |-> [labels |-> <<>>, values |-> <<>>],
   featureTrends |-> EmptyObject,
   userEngagement |-> EmptyObject,
   sessionFrequency |-> EmptyObject,
   sessionDepth |-> [durationDistribution |-> [k \in DurationKeys |-> 0],
                     timeOfDayDistribution |-> [k \in TimeOfDayKeys |-> 0],
                     sessionIntensity |-> [k \in IntensityKeys |-> 0],
                     avgSessionsPerDay |-> [fixed |-> FALSE, hundredths |-> 0],
                     maxConsecutiveDays |-> 0]]

\* the object built at lines 505-520 from the session metrics m and the five
\* fetched feature collections f
assembledResult(m, f, rs, tzArg) ==
  [isDefault |-> FALSE,
   dau |-> m.dau, wau |-> m.wau, mau |-> m.mau, avgSessionMin |-> m.sessionStats.avg,
   sessionStats |-> m.sessionStats,
   retentionD1 |-> 0,
   active30 |-> m.active30, sessions30 |-> m.sessions30, avgDuration30 |-> m.avgDuration30,
   featureUsage |-> [labels |-> UsageLabels,
                     values |-> [i \in 1..Len(Features) |-> Len(f[Features[i]])]],
   featureTrends |-> [n \in FeatureNames |-> calculateDailyTrend(f[n], m.labels, tzArg)],
   userEngagement |-> calculateUserEngagement(rs),
   sessionFrequency |-> calculateSessionFrequency(rs),
   sessionDepth |-> calculateSessionDepth(rs, tzArg)]

\* try { ... } catch (e) { return default }
Catch(e) ==
  /\ caught' = e
  /\ result' = defaultResult
  /\ pc' = "done"

\* lines 341-353: the date ranges are taken and the session query is issued
Start ==
  /\ pc = "start"
  /\ pc' = "awaitSessions"
  /\ UNCHANGED <<otherVars, now, tz, engineVars, role, tables, rows, partial, caught, result>>

\* lines 349-387: the session query settles; filterRole is entered, and with
\* a role it issues the profiles query
SessionsFetched ==
  /\ pc = "awaitSessions"
  /\ IF tables.sessions.outcome = "reject"
     THEN Catch("rejected") /\ UNCHANGED rows
     ELSE /\ rows' = DataOrEmpty(tables.sessions)
          /\ pc' = IF role = "all" THEN "compute" ELSE "awaitProfiles"
          /\ UNCHANGED <<caught, result>>
  /\ UNCHANGED <<otherVars, now, tz, engineVars, role, tables, partial>>

\* lines 371-385: the profiles query settles and the rows are filtered
ProfilesFetched ==
  /\ pc = "awaitProfiles"
  /\ IF tables.profiles.outcome = "reject"
     THEN Catch("rejected") /\ UNCHANGED rows
     ELSE /\ rows' = filterRole(role, rows, tables.profiles)
          /\ pc' = "compute"
          /\ UNCHANGED <<caught, result>>
  /\ UNCHANGED <<otherVars, now, tz, engineVars, role, tables, partial>>

\* lines 388-478: the session metrics, then the five feature queries are issued
ComputeSessionMetrics ==
  /\ pc = "compute"
  /\ IF ByDayThrows(rows)
     THEN Catch("RangeError") /\ UNCHANGED partial
     ELSE /\ partial' = sessionMetrics(rows, now, tz)
          /\ pc' = "awaitFeatures"
          /\ UNCHANGED <<caught, result>>
  /\ UNCHANGED <<otherVars, now, tz, engineVars, role, tables, rows>>

\* A variant without the .catch(e => []) of a feature query
featureFetchRejectsNoCatch(resp) == resp.outcome = "reject"

\* .then(r => r.data || []).catch(e => []): a rejected feature query is
\* caught where it is issued and does not reach the try block
featureFetchRejects(resp) == FALSE

\* lines 442-523: the five feature queries have settled (a rejection and a
\* response without data both give []); the result is assembled
FeaturesFetched ==
  /\ pc = "awaitFeatures"
  /\ LET f == [n \in FeatureNames |-> DataOrEmpty(tables[n])]
     IN IF \E n \in FeatureNames : featureFetchRejects(tables[n])
        THEN Catch("rejected")
        ELSE IF (\E n \in FeatureNames : DailyTrendThrows(f[n])) \/ SessionDepthThrows(rows)
        THEN Catch("RangeError")
        ELSE /\ result' = assembledResult(partial, f, rows, tz)
             /\ pc' = "done"
             /\ UNCHANGED caught
  /\ UNCHANGED <<otherVars, now, tz, engineVars, role, tables, rows, partial>>

\* bounds and inputs of the handler
MaxRows == 2

SessionPool(n) ==
  {Row("u1", 120, n - 1), Row("u1", 900, n - 20), Row("u2", MissingDur, n - 30),
   Row("u2", 400, n - 8 * HoursPerDay), Row("u1", 100, NullT), Row("u2", 100, BadT),
   Row(NoUser, 50, n - 2)}

SessionResponses(n) ==
  {Resp("data", rs) : rs \in SeqsUpTo(SessionPool(n), MaxRows)}
    \cup {Resp("error", <<>>), Resp("reject", <<>>)}

Profiles == <<[id |-> "u1", role |-> "student"], [id |-> "u2", role |-> "parent"]>>

RoleAndProfiles ==
  {<<"all", Resp("data", Profiles)>>, <<"student", Resp("data", Profiles)>>,
   <<"student", Resp("error", <<>>)>>, <<"student", Resp("reject", <<>>)>>}

FeatureResponses(n) ==
  {[x \in FeatureNames |-> Resp("data", <<>>)],
   [x \in FeatureNames |->
      CASE x = "homework" -> Resp("data", <<Item("u1", n), Item("u2", n - HoursPerDay)>>)
        [] x = "exams" -> Resp("error", <<>>)
        [] x = "notes" -> Resp("reject", <<>>)
        [] x = "flashcards" -> Resp("data", <<Item("u1", NullT)>>)
        [] x = "pomodoro" -> Resp("data", <<Item("u2", n)>>)],
   [x \in FeatureNames |->
      IF x = "homework" THEN Resp("data", <<Item("u1", BadT)>>) ELSE Resp("data", <<>>)]}

Init ==
  /\ \E c \in Clocks : now = c[1] /\ tz = c[2]
  /\ sessions = <<>>
  /\ data = <<>>
  /\ labels = <<>>
  /\ NothingReturned
  /\ OthersIdle
  /\ \E rp \in RoleAndProfiles, sr \in SessionResponses(now), fr \in FeatureResponses(now) :
       /\ role = rp[1]
       /\ tables = [x \in FeatureNames \cup {"sessions", "profiles"} |->
                      IF x = "sessions" THEN sr ELSE IF x = "profiles" THEN rp[2] ELSE fr[x]]
  /\ pc = "start"
  /\ rows = <<>>
  /\ partial = NotCalled
  /\ caught = "none"
  /\ result = NotCalled

Next ==
  \/ Start
  \/ SessionsFetched
  \/ ProfilesFetched
  \/ ComputeSessionMetrics
  \/ FeaturesFetched

Spec == Init /\ [][Next]_vars

\* ------------------------------------------------------------------------
\* Properties of the pure functions
\* ------------------------------------------------------------------------
\* the distinct user identifiers appearing in ss
UsersOf(ss) == {ss[i].user_id : i \in 1..Len(ss)} \ {NoUser}

\* the number of sessions of u in ss
CountOf(ss, u) == Cardinality({i \in 1..Len(ss) : ss[i].user_id = u})

\* the sum of the numeric durations of u's sessions
TotalOf(ss, u) ==
  SumSeq([i \in 1..Len(ss) |->
            IF ss[i].user_id = u /\ ss[i].duration >= 0 THEN ss[i].duration ELSE 0])

\* the distinct dates of u's sessions that have a start time
DatesOf(ss, u) ==
  {ss[i].start_time \div HoursPerDay :
     i \in {j \in 1..Len(ss) : ss[j].user_id = u /\ ss[j].start_time >= 0}}

MaxOfSet(S) == IF S = {} THEN 0 ELSE CHOOSE x \in S : \A y \in S : x >= y

\* the length of the longest run of consecutive dates in S
LongestRun(S) ==
  MaxOfSet({p[2] - p[1] + 1 :
              p \in {q \in S \X S : q[1] <= q[2] /\ \A d \in q[1]..q[2] : d \in S}})

\* C1: maxConsecutiveDays is the maximum, over all users, of the longest run
\* of that user's distinct session dates in which each date is one day after
\* the previous one; same-date sessions count once, a gap restarts the run,
\* a single dated session gives 1 and no session gives 0.
C1_MaxConsecutiveDays ==
  retDepth.status = "ok" =>
    retDepth.value.maxConsecutiveDays =
      MaxOfSet({LongestRun(DatesOf(sessions, u)) : u \in UsersOf(sessions)})

\* dates D, D+1, D+2, D+5 of one user, each with two sessions, give 3
C1_Witness ==
  /\ retDepth.status = "ok"
  /\ UsersOf(sessions) = {"u1"}
  /\ DatesOf(sessions, "u1") = {Day0 - 5, Day0 - 4, Day0 - 3, Day0}
  /\ Len(sessions) = 8
  /\ retDepth.value.maxConsecutiveDays = 3

HasStart(s) == s.start_time >= 0
ZeroedDurations(ss) ==
  [i \in 1..Len(ss) |-> [ss[i] EXCEPT !.duration = IF @ >= 0 THEN @ ELSE 0]]
MalformedAt(ss, i) == ss[i].start_time \in {NullT, UndefT} /\ ss[i].duration < 0

\* C4: calculateSessionDepth does not throw on a record whose duration is
\* missing or non-numeric or whose start_time is missing; the duration counts
\* as 0, the session is left out of the time-of-day distribution, the
\* distinct-day set and the streak, and its user is still counted in the
\* frequency and intensity buckets.
C4_DepthToleratesMalformed ==
  (\A i \in 1..Len(sessions) : sessions[i].start_time # BadT) =>
    /\ retDepth # NotCalled =>
         LET dated == SelectSeq(sessions, HasStart)
             days == {dated[i].start_time \div HoursPerDay : i \in 1..Len(dated)}
         IN /\ retDepth.status = "ok"
            /\ retDepth.value = calculateSessionDepth(ZeroedDurations(sessions), tz)
            /\ SumFn(retDepth.value.durationDistribution) = Len(sessions)
            /\ retDepth.value.timeOfDayDistribution =
                 calculateSessionDepth(dated, tz).timeOfDayDistribution
            /\ SumFn(retDepth.value.timeOfDayDistribution) = Len(dated)
            /\ retDepth.value.maxConsecutiveDays =
                 MaxOfSet({LongestRun(DatesOf(dated, u)) : u \in UsersOf(dated)})
            /\ retDepth.value.avgSessionsPerDay =
                 IF days = {} THEN [fixed |-> FALSE, hundredths |-> 0]
                 ELSE [fixed |-> TRUE,
                       hundredths |-> (200 * Len(sessions) + Cardinality(days))
                                        \div (2 * Cardinality(days))]
            /\ SumFn(retDepth.value.sessionIntensity) = Cardinality(UsersOf(sessions))
    /\ retFrequency # NotCalled =>
         /\ retFrequency.status = "ok"
         /\ SumFn(retFrequency.value) = Cardinality(UsersOf(sessions))

\* the only session of user u1 has neither a duration nor a start time
C4_Witness ==
  /\ retDepth.status = "ok"
  /\ retFrequency.status = "ok"
  /\ \E i \in 1..Len(sessions) :
       /\ MalformedAt(sessions, i)
       /\ CountOf(sessions, sessions[i].user_id) = 1
  /\ Cardinality(UsersOf(sessions)) = 2
  /\ SumFn(retDepth.value.sessionIntensity) = 2
  /\ retFrequency.value["1-2"] >= 1

\* C6: calculateDailyTrend returns one non-negative integer per window label,
\* in label order: entry j is the number of records whose day key is label j;
\* records outside the window and records without a timestamp are ignored
\* without error, so the entries sum to at most the number of records.
C6_DailyTrendCounts ==
  (retTrend # NotCalled /\ \A i \in 1..Len(data) : data[i].created_at # BadT) =>
    /\ retTrend.status = "ok"
    /\ DOMAIN retTrend.value = DOMAIN labels
    /\ \A j \in DOMAIN labels :
         /\ retTrend.value[j] \in Nat
         /\ retTrend.value[j] =
              Cardinality({i \in 1..Len(data) :
                             /\ data[i].created_at >= 0
                             /\ dayKey(data[i].created_at, tz) = labels[j]})
    /\ SumSeq(retTrend.value) <= Len(data)

\* two records on one day of the window and one record without a timestamp
C6_Witness ==
  /\ retTrend.status = "ok"
  /\ Len(labels) = WindowLen
  /\ \E j \in DOMAIN labels : retTrend.value[j] = 2
  /\ \E i \in 1..Len(data) : data[i].created_at = NullT
  /\ SumSeq(retTrend.value) < Len(data)

IsShortFrequent(c, t) == t < 300 * c /\ c >= 10
IsLongInfrequent(c, t) == ~IsShortFrequent(c, t) /\ t >= 600 * c /\ c < 5
IsBalanced(c, t) ==
  ~IsShortFrequent(c, t) /\ ~IsLongInfrequent(c, t) /\ t >= 300 * c /\ c >= 5
IsShallow(c, t) == ~IsShortFrequent(c, t) /\ ~IsLongInfrequent(c, t) /\ ~IsBalanced(c, t)

\* C7: every user with a session is in exactly one intensity class, tested in
\* the order short-frequent (average < 300 s, count >= 10), long-infrequent
\* (average >= 600 s, count < 5), balanced (average >= 300 s, count >= 5),
\* shallow; (15, 200 s), (3, 700 s), (6, 400 s), (2, 100 s) fall in these
\* four classes in turn, and the class counts sum to the number of users.
C7_IntensityClasses ==
  retDepth.status = "ok" =>
    LET I == retDepth.value.sessionIntensity
        U == UsersOf(sessions)
        c(u) == CountOf(sessions, u)
        t(u) == TotalOf(sessions, u)
        is(u, n, avg) == c(u) = n /\ t(u) = n * avg
    IN /\ DOMAIN I = IntensityKeys
       /\ I["shortFrequent"] = Cardinality({u \in U : IsShortFrequent(c(u), t(u))})
       /\ I["longInfrequent"] = Cardinality({u \in U : IsLongInfrequent(c(u), t(u))})
       /\ I["balanced"] = Cardinality({u \in U : IsBalanced(c(u), t(u))})
       /\ I["shallow"] = Cardinality({u \in U : IsShallow(c(u), t(u))})
       /\ SumFn(I) = Cardinality(U)
       /\ \A u \in U :
            /\ is(u, 15, 200) => I["shortFrequent"] >= 1
            /\ is(u, 3, 700) => I["longInfrequent"] >= 1
            /\ is(u, 6, 400) => I["balanced"] >= 1
            /\ is(u, 2, 100) => I["shallow"] >= 1

\* u1 has 10 sessions of 299 s, u2 has 6 sessions of 400 s
C7_Witness ==
  /\ retDepth.status = "ok"
  /\ CountOf(sessions, "u1") = 10 /\ TotalOf(sessions, "u1") = 2990
  /\ CountOf(sessions, "u2") = 6 /\ TotalOf(sessions, "u2") = 2400
  /\ retDepth.value.sessionIntensity["shortFrequent"] = 1
  /\ retDepth.value.sessionIntensity["balanced"] = 1

\* C8: calculateUserEngagement returns the four keys; a user with c sessions
\* is high when c >= 12, medium when 4 <= c < 12, low when 1 <= c < 4, and
\* inactive is 0 for every input.
C8_EngagementTiers ==
  retEngagement.status = "ok" =>
    LET E == retEngagement.value
        U == UsersOf(sessions)
        c(u) == CountOf(sessions, u)
    IN /\ DOMAIN E = {"high", "medium", "low", "inactive"}
       /\ E["high"] = Cardinality({u \in U : c(u) >= 12})
       /\ E["medium"] = Cardinality({u \in U : 4 <= c(u) /\ c(u) < 12})
       /\ E["low"] = Cardinality({u \in U : 1 <= c(u) /\ c(u) < 4})
       /\ E["inactive"] = 0

\* u1 has exactly 12 sessions (high), u2 has 3 (low)
C8_Witness ==
  /\ retEngagement.status = "ok"
  /\ CountOf(sessions, "u1") = 12
  /\ CountOf(sessions, "u2") = 3
  /\ retEngagement.value["high"] = 1
  /\ retEngagement.value["low"] = 1

\* C9: calculateSessionFrequency returns the five keys and counts each user
\* with c >= 1 sessions in the one bucket whose range contains c: 1-2, 3-5,
\* 6-10, 11-20 (20 included), 20+ for more than 20; users without a session
\* are not counted.
C9_FrequencyBuckets ==
  retFrequency.status = "ok" =>
    LET F == retFrequency.value
        U == UsersOf(sessions)
        c(u) == CountOf(sessions, u)
        in(a, b) == Cardinality({u \in U : a <= c(u) /\ c(u) <= b})
    IN /\ DOMAIN F = {"1-2", "3-5", "6-10", "11-20", "20+"}
       /\ F["1-2"] = in(1, 2)
       /\ F["3-5"] = in(3, 5)
       /\ F["6-10"] = in(6, 10)
       /\ F["11-20"] = in(11, 20)
       /\ F["20+"] = Cardinality({u \in U : c(u) > 20})
       /\ SumFn(F) = Cardinality(U)

\* u1 has exactly 20 sessions (11-20), u2 has 2 (1-2)
C9_Witness ==
  /\ retFrequency.status = "ok"
  /\ CountOf(sessions, "u1") = 20
  /\ CountOf(sessions, "u2") = 2
  /\ retFrequency.value["11-20"] = 1
  /\ retFrequency.value["1-2"] = 1

\* C10: the engagement tiers, the frequency buckets and the intensity classes
\* each sum to the number of distinct user identifiers in the sessions.
C10_DistributionsAgree ==
  (retEngagement.status = "ok" /\ retFrequency.status = "ok" /\ retDepth.status = "ok") =>
    /\ SumFn(retEngagement.value) = Cardinality(UsersOf(sessions))
    /\ SumFn(retFrequency.value) = Cardinality(UsersOf(sessions))
    /\ SumFn(retDepth.value.sessionIntensity) = Cardinality(UsersOf(sessions))

\* two users and a row without user_id, all three functions called
C10_Witness ==
  /\ retEngagement.status = "ok" /\ retFrequency.status = "ok" /\ retDepth.status = "ok"
  /\ Cardinality(UsersOf(sessions)) = 2
  /\ \E i \in 1..Len(sessions) : sessions[i].user_id = NoUser
  /\ SumFn(retEngagement.value) = 2

\* ------------------------------------------------------------------------
\* Properties of getBehaviorMetrics
\* ------------------------------------------------------------------------
Returned == pc = "done"

\* the local calendar day of the instant t
LocalDay(t, tzArg) == toLocal(t, tzArg) \div HoursPerDay

\* C2: when the aggregation raises an exception the returned object is an
\* all-zero default with every required key: the four engagement tiers, the
\* five frequency buckets, the five feature trends of 30 zeros, the five
\* feature usage entries and every sessionDepth distribution key.
C2_DefaultHasEveryKey ==
  (Returned /\ caught # "none") =>
    /\ DOMAIN result.userEngagement = EngagementKeys
    /\ \A k \in EngagementKeys : result.userEngagement[k] = 0
    /\ DOMAIN result.sessionFrequency = FrequencyKeys
    /\ \A k \in FrequencyKeys : result.sessionFrequency[k] = 0
    /\ DOMAIN result.featureTrends = FeatureNames
    /\ \A n \in FeatureNames : result.featureTrends[n] = Zeros(WindowLen)
    /\ Len(result.featureUsage.labels) = Len(Features)
    /\ result.featureUsage.values = Zeros(Len(Features))
    /\ DOMAIN result.sessionDepth.durationDistribution = DurationKeys
    /\ DOMAIN result.sessionDepth.timeOfDayDistribution = TimeOfDayKeys
    /\ DOMAIN result.sessionDepth.sessionIntensity = IntensityKeys
    /\ result.active30 = Zeros(WindowLen)

\* C3: a session record with a missing or invalid start time never makes
\* getBehaviorMetrics fall back to the default result; the record is only
\* left out of the time-keyed buckets and every other metric is computed
\* from all records.
C3_MalformedStartDegradesLocally ==
  (/\ Returned
   /\ caught # "rejected"
   /\ \A n \in FeatureNames : ~DailyTrendThrows(DataOrEmpty(tables[n]))
   /\ \E i \in 1..Len(rows) : rows[i].start_time < 0) =>
    /\ ~result.isDefault
    /\ result.sessionStats.total = SumSeq(durationsOf(rows))
    /\ SumFn(result.userEngagement) = Cardinality(UsersOf(rows))
    /\ SumFn(result.sessionFrequency) = Cardinality(UsersOf(rows))
    /\ SumFn(result.sessions30) <= Cardinality({i \in 1..Len(rows) : rows[i].start_time >= 0})

\* C5: for every server UTC offset a record whose timestamp falls on the
\* local calendar day k days before today is counted at position 30 - k of
\* the daily arrays, so a record of today is counted in the last position.
C5_LocalDayAtLabelPosition ==
  (Returned /\ ~result.isDefault) =>
    \A k \in 0..(WindowLen - 1) :
      /\ result.sessions30[WindowLen - k] =
           Cardinality({i \in 1..Len(rows) :
                          /\ rows[i].start_time >= 0
                          /\ LocalDay(rows[i].start_time, tz) = LocalDay(now, tz) - k})
      /\ \A n \in FeatureNames :
           LET f == DataOrEmpty(tables[n])
           IN result.featureTrends[n][WindowLen - k] =
                Cardinality({i \in 1..Len(f) :
                               /\ f[i].created_at >= 0
                               /\ LocalDay(f[i].created_at, tz) = LocalDay(now, tz) - k})

\* ------------------------------------------------------------------------
\* Distributions of calculateSessionDepth
\* ------------------------------------------------------------------------
MinutesOf(s) == NumberOrZero(s.duration) \div SecondsPerMinute

\* The five duration labels in ascending order, and the whole minutes each
\* label stands for
DurationRank(k) ==
  CASE k = "0-5" -> 1 [] k = "5-15" -> 2 [] k = "15-30" -> 3 [] k = "30-60" -> 4 [] k = "60+" -> 5
InDurationRange(m, k) ==
  CASE k = "0-5" -> m <= 5
    [] k = "5-15" -> 5 < m /\ m <= 15
    [] k = "15-30" -> 15 < m /\ m <= 30
    [] k = "30-60" -> 30 < m /\ m <= 60
    [] k = "60+" -> 60 < m

\* The buckets in which the returned distribution counts session i: the
\* difference between the distribution of the sessions and that of the
\* sessions without session i
WithoutRow(ss, i) == [j \in 1..(Len(ss) - 1) |-> IF j < i THEN ss[j] ELSE ss[j + 1]]
DurationBucketsOf(i) ==
  LET all == calculateSessionDepth(sessions, tz).durationDistribution
      rest == calculateSessionDepth(WithoutRow(sessions, i), tz).durationDistribution
  IN {k \in DurationKeys : all[k] = rest[k] + 1}

\* C11: the duration distribution has exactly the five labels; each session
\* is counted in exactly one of them, the one that holds
\* floor(duration / 60) minutes; a longer session is never counted in a
\* lower bucket than a shorter one; the counts sum to the number of sessions.
C11_DurationDistribution ==
  retDepth.status = "ok" =>
    LET dist == retDepth.value.durationDistribution
    IN /\ DOMAIN dist = DurationKeys
       /\ \A i \in 1..Len(sessions) :
            /\ Cardinality(DurationBucketsOf(i)) = 1
            /\ \A k \in DurationBucketsOf(i) : InDurationRange(MinutesOf(sessions[i]), k)
       /\ \A i, j \in 1..Len(sessions) :
            /\ MinutesOf(sessions[i]) = MinutesOf(sessions[j])
                 => DurationBucketsOf(i) = DurationBucketsOf(j)
            /\ NumberOrZero(sessions[i].duration) <= NumberOrZero(sessions[j].duration)
                 => \A ki \in DurationBucketsOf(i), kj \in DurationBucketsOf(j) :
                      DurationRank(ki) <= DurationRank(kj)
       /\ \A k \in DurationKeys :
            dist[k] = Cardinality({i \in 1..Len(sessions) : InDurationRange(MinutesOf(sessions[i]), k)})
       /\ SumFn(dist) = Len(sessions)

\* Two sessions of the same whole minute (300 s and 359 s) share the first
\* bucket
C11_Witness ==
  /\ retDepth.status = "ok"
  /\ Len(sessions) = 2
  /\ sessions[1].duration = 300
  /\ sessions[2].duration = 359
  /\ retDepth.value.durationDistribution["0-5"] = 2

\* The quadrant of a local hour
InQuadrant(h, k) ==
  CASE k = "night" -> 0 <= h /\ h < 6
    [] k = "morning" -> 6 <= h /\ h < 12
    [] k = "afternoon" -> 12 <= h /\ h < 18
    [] k = "evening" -> 18 <= h /\ h < 24
LocalHour(t, tzArg) == toLocal(t, tzArg) % HoursPerDay

\* C12: the time-of-day distribution has exactly the four labels; each
\* session that has a start time is counted in exactly the quadrant of its
\* local start hour, a session without one in none; the counts sum to the
\* number of sessions that have a start time.
C12_TimeOfDayDistribution ==
  retDepth.status = "ok" =>
    LET dist == retDepth.value.timeOfDayDistribution
    IN /\ DOMAIN dist = TimeOfDayKeys
       /\ \A k \in TimeOfDayKeys :
            dist[k] = Cardinality({i \in 1..Len(sessions) :
                                    /\ HasStart(sessions[i])
                                    /\ InQuadrant(LocalHour(sessions[i].start_time, tz), k)})
       /\ SumFn(dist) = Cardinality({i \in 1..Len(sessions) : HasStart(sessions[i])})

\* A session that starts at 06:00 local time is a morning session, and one
\* without a start time is not counted
C12_Witness ==
  /\ retDepth.status = "ok"
  /\ Len(sessions) = 2
  /\ HasStart(sessions[1])
  /\ LocalHour(sessions[1].start_time, tz) = 6
  /\ ~HasStart(sessions[2])
  /\ retDepth.value.timeOfDayDistribution["morning"] = 1
  /\ SumFn(retDepth.value.timeOfDayDistribution) = 1

\* ------------------------------------------------------------------------
\* Active users of getBehaviorMetrics
\* ------------------------------------------------------------------------
\* C13: the daily, weekly and monthly active-user counts of every returned
\* result are ordered: dau <= wau <= mau.
C13_ActiveUsersOrdered ==
  Returned => result.dau <= result.wau /\ result.wau <= result.mau

\* A computed result in which the wider window holds more users
C13_Witness ==
  /\ Returned
  /\ ~result.isDefault
  /\ Len(rows) = 2
  /\ result.dau = 1
  /\ result.wau = 2
  /\ result.mau = 2

\* The user identifiers among the sessions that start on or after a cutoff
IdentifiersSince(rs, since) ==
  UsersOf(SelectSeq(rs, LAMBDA r : HasStart(r) /\ r.start_time >= since))

\* C14: each active-user count of a computed result is the number of
\* distinct user identifiers among the sessions that start on or after its
\* cutoff (one, seven and thirty days before now).
C14_DistinctUserIdentifiers ==
  (Returned /\ ~result.isDefault) =>
    /\ result.dau = Cardinality(IdentifiersSince(rows, daysAgo(now, tz, 1)))
    /\ result.wau = Cardinality(IdentifiersSince(rows, daysAgo(now, tz, 7)))
    /\ result.mau = Cardinality(IdentifiersSince(rows, daysAgo(now, tz, 30)))

\* ------------------------------------------------------------------------
\* Average sessions per day of calculateSessionDepth
\* ------------------------------------------------------------------------
ActiveDates(ss) == {toISODate(ss[i].start_time) : i \in {j \in 1..Len(ss) : HasStart(ss[j])}}
Distance(a, b) == IF a >= b THEN a - b ELSE b - a

\* C15: avgSessionsPerDay is the number of sessions divided by the number
\* of distinct calendar dates on which a session started, rounded to two
\* decimals (a value within half a hundredth of the quotient; 10 sessions
\* over 5 dates give 2.00), and is 0 when there is no such date.
C15_AvgSessionsPerDay ==
  retDepth.status = "ok" =>
    LET avg == retDepth.value.avgSessionsPerDay
        total == Len(sessions)
        dates == Cardinality(ActiveDates(sessions))
    IN /\ dates = 0 => avg.hundredths = 0 /\ ~avg.fixed
       /\ dates > 0 => 2 * Distance(avg.hundredths * dates, 100 * total) <= dates
       /\ (total = 10 /\ dates = 5) => avg.hundredths = 200

\* Ten sessions on five dates
C15_Witness ==
  /\ retDepth.status = "ok"
  /\ Len(sessions) = 10
  /\ Cardinality(ActiveDates(sessions)) = 5
  /\ retDepth.value.avgSessionsPerDay = [fixed |-> TRUE, hundredths |-> 200]

\* ------------------------------------------------------------------------
\* The 30-day window of getBehaviorMetrics
\* ------------------------------------------------------------------------
\* C16: the labels of the window are exactly 30 calendar dates, each one
\* day after the previous one, and the last is today (the date of now, in
\* UTC or in the server's local time).
C16_WindowLabelsGapFree ==
  partial.status = "ok" =>
    /\ Len(partial.labels) = WindowLen
    /\ \A i \in 1..(WindowLen - 1) : partial.labels[i + 1] = partial.labels[i] + 1
    /\ partial.labels[WindowLen] \in {toISODate(now), LocalDay(now, tz)}

\* ------------------------------------------------------------------------
\* Feature queries of getBehaviorMetrics
\* ------------------------------------------------------------------------
FeatureIndex(n) == CHOOSE i \in 1..Len(Features) : Features[i] = n
FetchFailed(n) == tables[n].outcome # "data" \/ tables[n].data = <<>>
WellFormedFeatures == \A n \in FeatureNames : ~DailyTrendThrows(DataOrEmpty(tables[n]))

\* C17: when the session part has been computed and no feature record is
\* malformed, a feature query that fails or returns no data leaves the
\* result computed (not the default): the trend of that feature is 30 zeros
\* and its usage count 0, and the trend and usage of every other feature
\* and every session metric are what the other collections alone determine.
C17_FeatureFailureIsLocal ==
  (Returned /\ partial.status = "ok" /\ WellFormedFeatures) =>
    /\ ~result.isDefault
    /\ \A n \in FeatureNames :
         IF FetchFailed(n)
         THEN /\ result.featureTrends[n] = Zeros(WindowLen)
              /\ result.featureUsage.values[FeatureIndex(n)] = 0
         ELSE /\ result.featureTrends[n] = calculateDailyTrend(tables[n].data, partial.labels, tz)
              /\ result.featureUsage.values[FeatureIndex(n)] = Len(tables[n].data)
    /\ LET m == sessionMetrics(rows, now, tz)
       IN /\ <<result.dau, result.wau, result.mau>> = <<m.dau, m.wau, m.mau>>
          /\ result.sessionStats = m.sessionStats
          /\ result.avgSessionMin = m.sessionStats.avg
          /\ <<result.active30, result.sessions30, result.avgDuration30>>
               = <<m.active30, m.sessions30, m.avgDuration30>>
    /\ result.userEngagement = calculateUserEngagement(rows)
    /\ result.sessionFrequency = calculateSessionFrequency(rows)
    /\ result.sessionDepth = calculateSessionDepth(rows, tz)

\* The notes query rejects and the exams query returns an error; homework,
\* flashcards and pomodoro keep their counts and the session metrics theirs
C17_Witness ==
  /\ Returned
  /\ ~result.isDefault
  /\ tables.notes.outcome = "reject"
  /\ tables.exams.outcome = "error"
  /\ result.featureUsage.values = <<2, 0, 0, 1, 1>>
  /\ result.featureTrends.notes = Zeros(WindowLen)
  /\ SumSeq(result.featureTrends.homework) > 0
  /\ result.mau = 2

\* ------------------------------------------------------------------------
\* The role filter of getBehaviorMetrics
\* ------------------------------------------------------------------------
\* The users that have the requested role, and the records of such users
RoleUsers == {Profiles[i].id : i \in {j \in 1..Len(Profiles) : Profiles[j].role = role}}
OfRole(records) == SelectSeq(records, LAMBDA r : r.user_id \in RoleUsers)

\* The session part of a result is computed from the sessions of the users
\* that have the role
SessionsOfRoleOnly ==
  /\ \A i \in 1..Len(rows) : rows[i].user_id \in RoleUsers
  /\ tables.profiles.outcome = "data" => rows = OfRole(DataOrEmpty(tables.sessions))

\* C18: with a role other than 'all', every field of a computed result is
\* computed from the records of users with that role only: the session
\* fields from their sessions, each feature usage count and feature trend
\* from their feature records.
C18_RoleFilterEverywhere ==
  (Returned /\ ~result.isDefault /\ role # "all") =>
    /\ SessionsOfRoleOnly
    /\ \A n \in FeatureNames :
         LET own == OfRole(DataOrEmpty(tables[n]))
         IN /\ result.featureUsage.values[FeatureIndex(n)] = Len(own)
            /\ result.featureTrends[n] = calculateDailyTrend(own, partial.labels, tz)

\* ------------------------------------------------------------------------
\* Zero divisors and signs in the result of getBehaviorMetrics
\* ------------------------------------------------------------------------
AllZero(f) == \A k \in DOMAIN f : f[k] = 0
NonNegative(f) == \A k \in DOMAIN f : f[k] >= 0
NoAverage == [fixed |-> FALSE, hundredths |-> 0]

\* C19: a result computed from no sessions has 0 in every session field; in
\* every result a day without sessions has average duration 0, sessions
\* without a positive duration give min = max = 0, and sessions without a
\* start date give avgSessionsPerDay 0; every numeric field of every result
\* is non-negative.
C19_ZeroNotNaN ==
  Returned =>
    LET d == result.sessionDepth
    IN /\ (rows = <<>> /\ ~result.isDefault) =>
            /\ <<result.dau, result.wau, result.mau, result.avgSessionMin>> = <<0, 0, 0, 0>>
            /\ AllZero(result.sessionStats)
            /\ AllZero(result.active30) /\ AllZero(result.sessions30)
            /\ AllZero(result.avgDuration30)
            /\ AllZero(result.userEngagement) /\ AllZero(result.sessionFrequency)
            /\ AllZero(d.durationDistribution) /\ AllZero(d.timeOfDayDistribution)
            /\ AllZero(d.sessionIntensity)
            /\ d.avgSessionsPerDay = NoAverage
            /\ d.maxConsecutiveDays = 0
       /\ \A i \in 1..WindowLen :
            result.sessions30[i] = 0 => result.avgDuration30[i] = 0 /\ result.active30[i] = 0
       /\ (\A i \in 1..Len(rows) : NumberOrZero(rows[i].duration) = 0) =>
            result.sessionStats.min = 0 /\ result.sessionStats.max = 0
       /\ (\A i \in 1..Len(rows) : ~HasStart(rows[i])) => d.avgSessionsPerDay = NoAverage
       /\ result.dau >= 0 /\ result.wau >= 0 /\ result.mau >= 0
       /\ result.avgSessionMin >= 0 /\ result.retentionD1 >= 0
       /\ NonNegative(result.sessionStats)
       /\ NonNegative(result.active30) /\ NonNegative(result.sessions30)
       /\ NonNegative(result.avgDuration30)
       /\ NonNegative(result.featureUsage.values)
       /\ \A n \in DOMAIN result.featureTrends : NonNegative(result.featureTrends[n])
       /\ NonNegative(result.userEngagement) /\ NonNegative(result.sessionFrequency)
       /\ NonNegative(d.durationDistribution) /\ NonNegative(d.timeOfDayDistribution)
       /\ NonNegative(d.sessionIntensity)
       /\ d.avgSessionsPerDay.hundredths >= 0
       /\ d.maxConsecutiveDays >= 0

\* A result computed from no sessions at all, next to two homework records
C19_Witness ==
  /\ Returned
  /\ ~result.isDefault
  /\ rows = <<>>
  /\ result.sessionStats = [avg |-> 0, min |-> 0, max |-> 0, total |-> 0]
  /\ result.sessionDepth.avgSessionsPerDay = NoAverage
  /\ result.featureUsage.values[1] = 2

\* ------------------------------------------------------------------------
\* getBehaviorMetrics as a function of its inputs
\* ------------------------------------------------------------------------
\* The result of a call with role roleArg at the instant nowArg in zone
\* tzArg when the queries settle as tbls says
ResultOf(roleArg, tbls, nowArg, tzArg) ==
  IF tbls.sessions.outcome = "reject" \/ (roleArg # "all" /\ tbls.profiles.outcome = "reject")
  THEN defaultResult
  ELSE LET rs == filterRole(roleArg, DataOrEmpty(tbls.sessions), tbls.profiles)
           f == [n \in FeatureNames |-> DataOrEmpty(tbls[n])]
       IN IF ByDayThrows(rs) \/ SessionDepthThrows(rs)
             \/ (\E n \in FeatureNames : DailyTrendThrows(f[n]))
          THEN defaultResult
          ELSE assembledResult(sessionMetrics(rs, nowArg, tzArg), f, rs, tzArg)

\* The same responses with the records of every collection in another order
RECURSIVE PermsOf(_)
PermsOf(s) ==
  IF s = <<>> THEN {<<>>}
  ELSE UNION {{<<s[i]>> \o q : q \in PermsOf(WithoutRow(s, i))} : i \in 1..Len(s)}
Reordered(tbls, ps) == [x \in DOMAIN tbls |-> [tbls[x] EXCEPT !.data = ps[x]]]
Reorderings(tbls) ==
  {Reordered(tbls, [sessions |-> s, profiles |-> p, homework |-> h, exams |-> e,
                    notes |-> n, flashcards |-> c, pomodoro |-> m]) :
     s \in PermsOf(tbls.sessions.data), p \in PermsOf(tbls.profiles.data),
     h \in PermsOf(tbls.homework.data), e \in PermsOf(tbls.exams.data),
     n \in PermsOf(tbls.notes.data), c \in PermsOf(tbls.flashcards.data),
     m \in PermsOf(tbls.pomodoro.data)}

\* C20: the returned result is a function of the role, the query responses,
\* the current time and the zone, and it is the same for every order of the
\* records in the session, profile and feature collections.
C20_DeterministicOrderFree ==
  Returned =>
    /\ result = ResultOf(role, tables, now, tz)
    /\ \A tbls \in Reorderings(tables) : ResultOf(role, tbls, now, tz) = result

\* Two sessions of different positive durations, whose other order gives
\* the same computed result
C20_Witness ==
  /\ Returned
  /\ ~result.isDefault
  /\ Len(rows) = 2
  /\ rows[1].duration > rows[2].duration
  /\ rows[2].duration > 0
  /\ result.sessionStats.min = rows[2].duration
  /\ Cardinality(Reorderings(tables)) > 1

\* ------------------------------------------------------------------------
\* Session statistics and daily arrays of getBehaviorMetrics
\* ------------------------------------------------------------------------
HasPositiveDuration(rs) == \E i \in 1..Len(rs) : NumberOrZero(rs[i].duration) > 0

\* C22: when at least one session has a positive duration, the sessionStats
\* of a computed result satisfy min <= avg <= max, and total is the sum of
\* all session durations.
C22_SessionStatsOrdered ==
  (Returned /\ ~result.isDefault /\ HasPositiveDuration(rows)) =>
    /\ result.sessionStats.min <= result.sessionStats.avg
    /\ result.sessionStats.avg <= result.sessionStats.max
    /\ result.sessionStats.total = SumSeq(durationsOf(rows))

\* C23: at every position of the window active30 <= sessions30, active30 is
\* 0 exactly when sessions30 is 0, avgDuration30 is 0 when sessions30 is 0,
\* and the sum of sessions30 is at most the number of session rows.
C23_DailyArraysConsistent ==
  (Returned /\ ~result.isDefault) =>
    /\ \A i \in 1..WindowLen :
         /\ result.active30[i] <= result.sessions30[i]
         /\ result.active30[i] = 0 <=> result.sessions30[i] = 0
         /\ result.sessions30[i] = 0 => result.avgDuration30[i] = 0
    /\ SumSeq(result.sessions30) <= Len(rows)

\* ------------------------------------------------------------------------
\* Two getBehaviorMetrics calls in flight at once
\* ------------------------------------------------------------------------
\* Each call has its own role, position and local variables (rows, the
\* values computed before the feature fetch, the result); the calls query
\* the same database, whose responses are calls.tables.
CallIds == {1, 2}
NewCall(roleArg) ==
  [role |-> roleArg, pc |-> "start", rows |-> <<>>, partial |-> NotCalled,
   caught |-> "none", result |-> NotCalled]

\* A variant in which rows is one variable of the module, shared by the calls
writeRowsShared(cs, i, v) == [j \in DOMAIN cs |-> [cs[j] EXCEPT !.rows = v]]

\* const rows = ...: the assignment to the local variable of call i
writeRows(cs, i, v) == [cs EXCEPT ![i].rows = v]

\* catch (e) { return default } in call i
catchIn(cs, i, e) ==
  [cs EXCEPT ![i].caught = e, ![i].result = defaultResult, ![i].pc = "done"]

\* The step of call i at its position: up to the next await, or to the return
stepCall(cs, i, tbls, nowArg, tzArg) ==
  LET c == cs[i]
      f == [n \in FeatureNames |-> DataOrEmpty(tbls[n])]
  IN CASE c.pc = "start" -> [cs EXCEPT ![i].pc = "awaitSessions"]
       [] c.pc = "awaitSessions" ->
            IF tbls.sessions.outcome = "reject" THEN catchIn(cs, i, "rejected")
            ELSE writeRows([cs EXCEPT ![i].pc = IF c.role = "all" THEN "compute"
                                                ELSE "awaitProfiles"],
                           i, DataOrEmpty(tbls.sessions))
       [] c.pc = "awaitProfiles" ->
            IF tbls.profiles.outcome = "reject" THEN catchIn(cs, i, "rejected")
            ELSE writeRows([cs EXCEPT ![i].pc = "compute"],
                           i, filterRole(c.role, c.rows, tbls.profiles))
       [] c.pc = "compute" ->
            IF ByDayThrows(c.rows) THEN catchIn(cs, i, "RangeError")
            ELSE [cs EXCEPT ![i].partial = sessionMetrics(c.rows, nowArg, tzArg),
                            ![i].pc = "awaitFeatures"]
       [] c.pc = "awaitFeatures" ->
            IF \E n \in FeatureNames : featureFetchRejects(tbls[n])
            THEN catchIn(cs, i, "rejected")
            ELSE IF (\E n \in FeatureNames : DailyTrendThrows(f[n])) \/ SessionDepthThrows(c.rows)
            THEN catchIn(cs, i, "RangeError")
            ELSE [cs EXCEPT ![i].result = assembledResult(c.partial, f, c.rows, tzArg),
                            ![i].pc = "done"]

StepFirstCall ==
  /\ calls.call[1].pc # "done"
  /\ calls' = [calls EXCEPT !.call = stepCall(calls.call, 1, calls.tables, now, tz)]
  /\ UNCHANGED <<now, tz, engineVars, handlerVars, cleanup, dedupe, restore, gemini, banner>>

StepSecondCall ==
  /\ calls.call[2].pc # "done"
  /\ calls' = [calls EXCEPT !.call = stepCall(calls.call, 2, calls.tables, now, tz)]
  /\ UNCHANGED <<now, tz, engineVars, handlerVars, cleanup, dedupe, restore, gemini, banner>>

MaxCallRows == 1
CallRoles == {"all", "student"}
CallTables(n) ==
  {[x \in FeatureNames \cup {"sessions", "profiles"} |->
      IF x = "sessions" THEN sr ELSE IF x = "profiles" THEN pr ELSE fr[x]] :
     sr \in {Resp("data", rs) : rs \in SeqsUpTo(SessionPool(n), MaxCallRows)}
              \cup {Resp("error", <<>>), Resp("reject", <<>>)},
     pr \in {Resp("data", Profiles), Resp("error", <<>>), Resp("reject", <<>>)},
     fr \in FeatureResponses(n)}

InitCalls ==
  /\ now = Day0 * HoursPerDay + 3
  /\ tz = Zone(8)
  /\ sessions = <<>>
  /\ data = <<>>
  /\ labels = <<>>
  /\ NothingReturned
  /\ HandlerIdle
  /\ cleanup = NotCalled /\ dedupe = NotCalled /\ restore = NotCalled
  /\ gemini = NotCalled /\ banner = NotCalled
  /\ \E r1 \in CallRoles, r2 \in CallRoles, t \in CallTables(now) :
       calls = [tables |-> t, call |-> [i \in CallIds |-> NewCall(IF i = 1 THEN r1 ELSE r2)]]

NextCalls == StepFirstCall \/ StepSecondCall

SpecCalls == InitCalls /\ [][NextCalls]_vars

\* C21: each of two calls that run at once, interleaved at any of their
\* awaits, returns the result that a call with its role returns when it
\* runs alone on the same data.
C21_ConcurrentCallsIndependent ==
  calls # NotCalled =>
    \A i \in CallIds :
      calls.call[i].pc = "done" =>
        calls.call[i].result = ResultOf(calls.call[i].role, calls.tables, now, tz)

\* Both calls have returned, with different roles and different computed
\* results
C21_Witness ==
  /\ calls # NotCalled
  /\ \A i \in CallIds : calls.call[i].pc = "done" /\ ~calls.call[i].result.isDefault
  /\ calls.call[1].role = "all"
  /\ calls.call[2].role = "student"
  /\ calls.call[1].result.mau = 1
  /\ calls.call[2].result.mau = 0

\* ------------------------------------------------------------------------
\* doCleanup
\* ------------------------------------------------------------------------
\* cleanup.stored is what the tables hold when doCleanup is called and
\* cleanup.db what they hold now; cleanup.fetch says how each of the three
\* queries settles.  A course_id is a string or null.
NoCourse == "null"
DeleteLimit == 1000
CleanupTables == {"course_schedules", "homework", "exams"}
Owned(id, course_id) == [id |-> id, course_id |-> course_id]

Min(a, b) == IF a <= b THEN a ELSE b

\* ids.slice(0, 1000)
sliceLimit(ids) == SubSeq(ids, 1, Min(Len(ids), DeleteLimit))

\* .then(({data}) => ({data})).catch(() => ({data: []})), then (x.data || []):
\* an error response has data null, a rejection is replaced by []
fetchedOrEmpty(outcome, tableRows) == IF outcome = "data" THEN tableRows ELSE <<>>

\* rows.filter(h => h.course_id && !courseIds.has(h.course_id)).map(h => h.id)
orphanIds(tableRows, courseIds) ==
  LET isOrphan(h) == h.course_id # NoCourse /\ h.course_id \notin courseIds
      orphans == SelectSeq(tableRows, isOrphan)
  IN [i \in 1..Len(orphans) |-> orphans[i].id]

\* delete().in('id', ids)
deleteIn(tableRows, ids) ==
  LET idSet == {ids[i] : i \in 1..Len(ids)}
      kept(h) == h.id \notin idSet
  IN SelectSeq(tableRows, kept)

CleanupFrame == UNCHANGED <<now, tz, engineVars, handlerVars, calls, dedupe, restore, gemini, banner>>

\* lines 884-891: the three queries settle and the orphan ids are computed
CleanupFetched ==
  /\ cleanup # NotCalled
  /\ cleanup.pc = "start"
  /\ LET courses == fetchedOrEmpty(cleanup.fetch.course_schedules, cleanup.db.course_schedules)
         homework == fetchedOrEmpty(cleanup.fetch.homework, cleanup.db.homework)
         exams == fetchedOrEmpty(cleanup.fetch.exams, cleanup.db.exams)
         courseIds == {courses[i].id : i \in 1..Len(courses)}
         orphanHIds == orphanIds(homework, courseIds)
         orphanEIds == orphanIds(exams, courseIds)
     IN cleanup' = [cleanup EXCEPT !.orphanHIds = orphanHIds, !.orphanEIds = orphanEIds,
                                   !.pc = IF Len(orphanHIds) > 0 THEN "deleteHomework"
                                          ELSE IF Len(orphanEIds) > 0 THEN "deleteExams"
                                          ELSE "returned"]
  /\ CleanupFrame

\* lines 892-895: the homework delete settles
CleanupHomeworkDeleted ==
  /\ cleanup # NotCalled
  /\ cleanup.pc = "deleteHomework"
  /\ \E outcome \in {"ok", "error"} :
       cleanup' =
         IF outcome = "error" THEN [cleanup EXCEPT !.pc = "threw"]
         ELSE [cleanup EXCEPT
                 !.db.homework = deleteIn(cleanup.db.homework, sliceLimit(cleanup.orphanHIds)),
                 !.deleted = cleanup.deleted + Min(Len(cleanup.orphanHIds), DeleteLimit),
                 !.pc = IF Len(cleanup.orphanEIds) > 0 THEN "deleteExams" ELSE "returned"]
  /\ CleanupFrame

\* lines 896-899: the exams delete settles
CleanupExamsDeleted ==
  /\ cleanup # NotCalled
  /\ cleanup.pc = "deleteExams"
  /\ \E outcome \in {"ok", "error"} :
       cleanup' =
         IF outcome = "error" THEN [cleanup EXCEPT !.pc = "threw"]
         ELSE [cleanup EXCEPT
                 !.db.exams = deleteIn(cleanup.db.exams, sliceLimit(cleanup.orphanEIds)),
                 !.deleted = cleanup.deleted + Min(Len(cleanup.orphanEIds), DeleteLimit),
                 !.pc = "returned"]
  /\ CleanupFrame

MaxCleanupRows == 2
FetchOutcomes == {"data", "error", "reject"}
DistinctIds(rs) == \A i, j \in 1..Len(rs) : rs[i].id = rs[j].id => i = j
HomeworkPool == {Owned("h1", "c1"), Owned("h2", "c9"), Owned("h3", NoCourse)}
ExamPool == {Owned("e1", "c1"), Owned("e2", "c9")}
CoursesStored == <<[id |-> "c1"]>>

\* Everything else of the server at rest, at a fixed clock
RestIdle ==
  /\ now = Day0 * HoursPerDay + 3
  /\ tz = Zone(0)
  /\ sessions = <<>>
  /\ data = <<>>
  /\ labels = <<>>
  /\ NothingReturned
  /\ HandlerIdle

InitCleanup ==
  /\ RestIdle
  /\ calls = NotCalled /\ dedupe = NotCalled /\ restore = NotCalled
  /\ gemini = NotCalled /\ banner = NotCalled
  /\ \E hw \in {q \in SeqsUpTo(HomeworkPool, MaxCleanupRows) : DistinctIds(q)},
        ex \in {q \in SeqsUpTo(ExamPool, MaxCleanupRows) : DistinctIds(q)},
        fetch \in [CleanupTables -> FetchOutcomes] :
       LET stored == [course_schedules |-> CoursesStored, homework |-> hw, exams |-> ex]
       IN cleanup = [pc |-> "start", stored |-> stored, db |-> stored, fetch |-> fetch,
                     orphanHIds |-> <<>>, orphanEIds |-> <<>>, deleted |-> 0]

NextCleanup == CleanupFetched \/ CleanupHomeworkDeleted \/ CleanupExamsDeleted

SpecCleanup == InitCleanup /\ [][NextCleanup]_vars

\* The rows of a table that doCleanup has removed
RemovedBy(c, t) ==
  {c.stored[t][i] : i \in 1..Len(c.stored[t])} \ {c.db[t][i] : i \in 1..Len(c.db[t])}
ExistingCourses(c) == {c.stored.course_schedules[i].id : i \in 1..Len(c.stored.course_schedules)}

\* C24: doCleanup removes no homework or exam row whose course_id is the id
\* of an existing course_schedules row and no row without a course_id,
\* however its three queries settle, and at most 1000 rows of each table.
C24_CleanupKeepsReferencedRows ==
  cleanup # NotCalled =>
    \A t \in {"homework", "exams"} :
      /\ \A h \in RemovedBy(cleanup, t) :
           h.course_id # NoCourse /\ h.course_id \notin ExistingCourses(cleanup)
      /\ Cardinality(RemovedBy(cleanup, t)) <= DeleteLimit

\* ------------------------------------------------------------------------
\* doDedupe
\* ------------------------------------------------------------------------
\* dedupe.stored is the homework table when doDedupe is called, dedupe.db
\* the table now, both in the order in which the query returns the rows.
NoTitle == "null"
Homework(id, u, title, t) == [id |-> id, user_id |-> u, title |-> title, created_at |-> t]

\* (h.title || '').trim().toLowerCase()
normTitle(title) ==
  CASE title = NoTitle -> ""
    [] title \in {"Math", " math "} -> "math"
    [] title = "Essay" -> "essay"

\* `${h.user_id}|${title}|${day}` with day the UTC date of created_at
dedupeKey(h) == <<h.user_id, normTitle(h.title), toISODate(DateMs(h.created_at))>>

\* new Date(h.created_at).toISOString() throws for an Invalid Date
DedupeThrows(hw) == \E i \in 1..Len(hw) : InvalidDate(hw[i].created_at)

\* A variant that does not sort a group before it cuts off the first row
sortByCreatedNone(arr) == arr

\* arr.sort((a,b) => new Date(a.created_at) - new Date(b.created_at)): the
\* sort is stable
sortByCreated(arr) ==
  LET times == SortSet({DateMs(arr[i].created_at) : i \in 1..Len(arr)})
      createdAt(k) == SelectSeq(arr, LAMBDA h : DateMs(h.created_at) = times[k])
      upTo[k \in 0..Len(times)] == IF k = 0 THEN <<>> ELSE upTo[k - 1] \o createdAt(k)
  IN upTo[Len(times)]

\* The keys of the Map groups in insertion order
groupKeys(hw) ==
  LET keyAt == [i \in 1..Len(hw) |-> dedupeKey(hw[i])]
      firstOf == [k \in {keyAt[i] : i \in 1..Len(hw)} |->
                    CHOOSE i \in 1..Len(hw) : keyAt[i] = k /\ \A j \in 1..(i - 1) : keyAt[j] # k]
      firsts == SortSet({firstOf[k] : k \in DOMAIN firstOf})
  IN [n \in 1..Len(firsts) |-> keyAt[firsts[n]]]

\* for (const arr of groups.values()) if (arr.length > 1) push the ids of
\* the sorted group without its first row
RECURSIVE collectDeleteIds(_, _)
collectDeleteIds(hw, keys) ==
  IF keys = <<>> THEN <<>>
  ELSE LET inGroup(h) == dedupeKey(h) = Head(keys)
           arr == SelectSeq(hw, inGroup)
           sorted == sortByCreated(arr)
           ids == IF Len(arr) > 1 THEN [i \in 1..(Len(arr) - 1) |-> sorted[i + 1].id] ELSE <<>>
       IN ids \o collectDeleteIds(hw, Tail(keys))

DedupeFrame == UNCHANGED <<now, tz, engineVars, handlerVars, calls, cleanup, restore, gemini, banner>>

\* lines 905-919: the query settles, the groups are built and the ids to
\* delete collected; without ids the call returns { deleted: 0 }
DedupeFetched ==
  /\ dedupe # NotCalled
  /\ dedupe.pc = "start"
  /\ LET hw == fetchedOrEmpty(dedupe.fetch, dedupe.db)
     IN IF DedupeThrows(hw) THEN dedupe' = [dedupe EXCEPT !.pc = "threw"]
        ELSE LET deleteIds == collectDeleteIds(hw, groupKeys(hw))
             IN dedupe' = [dedupe EXCEPT
                             !.deleteIds = deleteIds,
                             !.reported = IF Len(deleteIds) > 0 THEN dedupe.reported ELSE 0,
                             !.pc = IF Len(deleteIds) > 0 THEN "delete" ELSE "returned"]
  /\ DedupeFrame

\* lines 920-924: the delete settles
DedupeDeleted ==
  /\ dedupe # NotCalled
  /\ dedupe.pc = "delete"
  /\ \E outcome \in {"ok", "error"} :
       dedupe' =
         IF outcome = "error" THEN [dedupe EXCEPT !.pc = "threw"]
         ELSE [dedupe EXCEPT !.db = deleteIn(dedupe.db, sliceLimit(dedupe.deleteIds)),
                             !.reported = Min(Len(dedupe.deleteIds), DeleteLimit),
                             !.pc = "returned"]
  /\ DedupeFrame

MaxDedupeRows == 3
DedupePool(n) ==
  LET d == (n \div HoursPerDay - 1) * HoursPerDay
  IN {Homework(1, "u1", "Math", d + 9), Homework(2, "u1", " math ", d + 3),
      Homework(3, "u1", "Math", d + 3), Homework(4, "u1", "Math", d + 30),
      Homework(5, "u1", "Essay", d + 9), Homework(6, "u2", "Math", d + 9),
      Homework(7, "u2", NoTitle, NullT), Homework(8, "u1", "Math", BadT)}

\* One group of more rows than a call deletes: DeleteLimit + 2 copies, the
\* earliest of them in the middle of the query result
ManyCopies(n) ==
  LET d == (n \div HoursPerDay - 1) * HoursPerDay
  IN [i \in 1..(DeleteLimit + 2) |->
        Homework(i, "u1", "Math", d + IF i = 500 THEN 0 ELSE 1 + (i % 20))]

NoReport == -1

InitDedupe ==
  /\ RestIdle
  /\ calls = NotCalled /\ cleanup = NotCalled /\ restore = NotCalled
  /\ gemini = NotCalled /\ banner = NotCalled
  /\ \E hw \in {q \in SeqsUpTo(DedupePool(now), MaxDedupeRows) : DistinctIds(q)}
                 \cup {ManyCopies(now)},
        fetch \in FetchOutcomes :
       dedupe = [pc |-> "start", stored |-> hw, db |-> hw, fetch |-> fetch,
                 deleteIds |-> <<>>, reported |-> NoReport]

NextDedupe == DedupeFetched \/ DedupeDeleted

SpecDedupe == InitDedupe /\ [][NextDedupe]_vars

\* The duplicate groups of the table, the rows of a group, and the rows
\* that a call removed
RowsOf(rs) == {rs[i] : i \in 1..Len(rs)}
GroupsOf(rs) == {dedupeKey(h) : h \in RowsOf(rs)}
GroupRows(rs, g) == {h \in RowsOf(rs) : dedupeKey(h) = g}
Earliest(hs) == CHOOSE t \in {DateMs(h.created_at) : h \in hs} :
                  \A h \in hs : t <= DateMs(h.created_at)
DedupeRemoved == RowsOf(dedupe.stored) \ RowsOf(dedupe.db)

restoreOrder ==
  <<"profiles", "course_schedules", "learning_sessions", "notes", "flashcards",
    "pomodoro_sessions", "homework", "exams", "feedback">>
RestoreTables == {restoreOrder[i] : i \in 1..Len(restoreOrder)}
batchSize == 50
MaxAgeDays == 30

NoResult == [set |-> FALSE, success |-> FALSE, records |-> 0, dryRun |-> FALSE]
NoResponse == [status |-> 0, totalRestored |-> 0]

\* Math.floor((now - backupDate) / (1000*60*60*24)) > 30; the comparison is
\* false for the NaN of an Invalid Date, and no timestamp skips the check
tooOld(timestamp, nowArg, safeMode) ==
  /\ safeMode
  /\ Truthy(timestamp)
  /\ ~InvalidDate(timestamp)
  /\ (nowArg - timestamp) \div HoursPerDay > MaxAgeDays

\* lines 1491-1494: the result of a table whose batch loop has ended
finishTable(r) ==
  LET name == restoreOrder[r.t]
  IN IF ~r.results[name].set \/ r.results[name].success
     THEN [r EXCEPT !.results[name] = [set |-> TRUE, success |-> TRUE,
                                       records |-> r.successCount, dryRun |-> FALSE],
                    !.totalRestored = r.totalRestored + r.successCount,
                    !.t = r.t + 1]
     ELSE [r EXCEPT !.t = r.t + 1]

\* lines 1452-1509: the for loop over restoreOrder from table r.t on, up to
\* the next upsert or to the 200 response
RECURSIVE restoreFrom(_)
restoreFrom(r) ==
  IF r.t > Len(restoreOrder)
  THEN [r EXCEPT !.pc = "responded",
                 !.response = [status |-> 200, totalRestored |-> r.totalRestored]]
  ELSE LET name == restoreOrder[r.t]
       IN IF r.counts[name] = 0 THEN restoreFrom([r EXCEPT !.t = r.t + 1])
          ELSE IF r.dryRun
          THEN restoreFrom([r EXCEPT
                  !.results[name] = [set |-> TRUE, success |-> TRUE,
                                     records |-> r.counts[name], dryRun |-> TRUE],
                  !.totalRestored = r.totalRestored + r.counts[name],
                  !.t = r.t + 1])
          ELSE [r EXCEPT !.pc = "upsert", !.i = 0, !.successCount = 0]

RestoreFrame == UNCHANGED <<now, tz, engineVars, handlerVars, calls, cleanup, dedupe, gemini, banner>>

\* lines 1425-1466: the options are read and the age of the backup checked
RestoreReceived ==
  /\ restore # NotCalled
  /\ restore.pc = "start"
  /\ restore' =
       IF tooOld(restore.timestamp, now, restore.safeMode)
       THEN [restore EXCEPT !.pc = "responded",
                            !.response = [status |-> 400, totalRestored |-> 0]]
       ELSE restoreFrom(restore)
  /\ RestoreFrame

\* lines 1471-1489: the upsert of the batch records.slice(i, i + batchSize)
\* settles; an error ends the batches of the table, a rejection is caught
\* at line 1514 (500)
RestoreBatchSettled ==
  /\ restore # NotCalled
  /\ restore.pc = "upsert"
  /\ \E outcome \in {"ok", "error", "reject"} :
       LET name == restoreOrder[restore.t]
           size == Min(batchSize, restore.counts[name] - restore.i)
           r == [restore EXCEPT !.attempts = Append(restore.attempts,
                                   [table |-> name, size |-> size, outcome |-> outcome])]
       IN restore' =
            CASE outcome = "reject" ->
                   [r EXCEPT !.pc = "responded",
                             !.response = [status |-> 500, totalRestored |-> 0]]
              [] outcome = "error" ->
                   restoreFrom(finishTable(
                     [r EXCEPT !.results[name] = [set |-> TRUE, success |-> FALSE,
                                                  records |-> 0, dryRun |-> FALSE]]))
              [] outcome = "ok" ->
                   LET after == [r EXCEPT !.successCount = r.successCount + size,
                                          !.i = r.i + batchSize]
                   IN IF after.i < after.counts[name] THEN after
                      ELSE restoreFrom(finishTable(after))
  /\ RestoreFrame

\* Backups: up to three batches of profiles, two of homework, one of
\* feedback; timestamps on both sides of the age limit
ProfileCounts == {0, 30, 120}
HomeworkCounts == {0, 50, 51}
FeedbackCounts == {0, 1}
BackupTimestamps(n) ==
  {NullT, BadT, n - 29 * HoursPerDay, n - (MaxAgeDays * HoursPerDay + 1),
   n - (MaxAgeDays + 1) * HoursPerDay, n - 45 * HoursPerDay}

InitRestore ==
  /\ RestIdle
  /\ calls = NotCalled /\ cleanup = NotCalled /\ dedupe = NotCalled
  /\ gemini = NotCalled /\ banner = NotCalled
  /\ \E safeMode \in BOOLEAN, dryRun \in BOOLEAN, ts \in BackupTimestamps(now),
        p \in ProfileCounts, h \in HomeworkCounts, f \in FeedbackCounts :
       restore = [pc |-> "start", safeMode |-> safeMode, dryRun |-> dryRun, timestamp |-> ts,
                  counts |-> [t \in RestoreTables |->
                                CASE t = "profiles" -> p [] t = "homework" -> h
                                  [] t = "feedback" -> f [] OTHER -> 0],
                  t |-> 1, i |-> 0, successCount |-> 0, totalRestored |-> 0,
                  results |-> [t \in RestoreTables |-> NoResult],
                  attempts |-> <<>>, response |-> NoResponse]

NextRestore == RestoreReceived \/ RestoreBatchSettled

SpecRestore == InitRestore /\ [][NextRestore]_vars

\* The number of records written: the lengths of the batches whose upsert
\* succeeded
Succeeded(a) == a.outcome = "ok"
RecordsWritten(attempts) ==
  LET okOnes == SelectSeq(attempts, Succeeded)
  IN SumSeq([k \in 1..Len(okOnes) |-> okOnes[k].size])
AgeHours == now - restore.timestamp

\* C26: a request with dryRun true issues no write, and its 200 response
\* reports for each table the number of records the backup holds for it;
\* in safe mode a backup whose timestamp is more than 30 days old is
\* answered with 400, and no write is issued for it.
C26_DryRunAndAgeLimit ==
  restore # NotCalled =>
    /\ restore.dryRun =>
         /\ restore.attempts = <<>>
         /\ restore.response.status = 200 =>
              \A t \in RestoreTables :
                restore.counts[t] > 0 =>
                  restore.results[t].set /\ restore.results[t].records = restore.counts[t]
    /\ (restore.safeMode /\ restore.timestamp >= 0 /\ AgeHours > MaxAgeDays * HoursPerDay) =>
         /\ restore.attempts = <<>>
         /\ restore.pc = "responded" => restore.response.status = 400

\* C27: the totalRestored of the 200 response of a request without dryRun is
\* the number of records written; after a failed batch no further batch of
\* that table is issued, the later tables are still restored, and the
\* batches follow the order of restoreOrder.
TableIndex(name) == CHOOSE k \in 1..Len(restoreOrder) : restoreOrder[k] = name
C27_TotalIsRecordsWritten ==
  (restore # NotCalled /\ ~restore.dryRun) =>
    /\ restore.response.status = 200 =>
         /\ restore.response.totalRestored = RecordsWritten(restore.attempts)
         /\ \A t \in RestoreTables :
              restore.counts[t] > 0 => \E k \in 1..Len(restore.attempts) :
                                         restore.attempts[k].table = t
    /\ \A j, k \in 1..Len(restore.attempts) :
         j < k =>
           /\ TableIndex(restore.attempts[j].table) <= TableIndex(restore.attempts[k].table)
           /\ restore.attempts[j].outcome = "error"
                => restore.attempts[j].table # restore.attempts[k].table

\* ------------------------------------------------------------------------
\* postGeminiWithRetry
\* ------------------------------------------------------------------------
\* gemini.responses is the sequence of responses received (one per POST),
\* gemini.waits the sequence of waits in milliseconds.  An option that is
\* absent (or 0, which is falsy as well) is the value 0.
DefaultMaxRetries == 2
DefaultBaseDelayMs == 1000
JitterRange == 300

Response(status, body) == [ok |-> status >= 200 /\ status < 300, status |-> status, body |-> body]

\* (options && options.x) ? options.x : default
optionOr(opt, default) == IF opt # 0 THEN opt ELSE default

\* A variant that takes every 5xx status for a busy service
is429Any5xx(res) ==
  res.status = 429 \/ res.body \in {"RESOURCE_EXHAUSTED", "resource_exhausted"} \/ res.status >= 500

\* res.status === 429 || /RESOURCE_EXHAUSTED/i.test(errTxt) || res.status === 503
is429(res) ==
  res.status = 429 \/ res.body \in {"RESOURCE_EXHAUSTED", "resource_exhausted"} \/ res.status = 503

\* A variant that retries once more
shouldRetryInclusive(res, attempt, maxRetries) == is429(res) /\ attempt <= maxRetries

\* is429 && attempt < maxRetries
shouldRetry(res, attempt, maxRetries) == is429(res) /\ attempt < maxRetries

\* res.json() rejects when the body is not JSON
jsonParses(body) == body = "json"

GeminiFrame == UNCHANGED <<now, tz, engineVars, handlerVars, calls, cleanup, dedupe, restore, banner>>

GeminiResponses ==
  {Response(200, "json"), Response(200, "not json"), Response(429, "busy"), Response(503, "busy"),
   Response(500, "RESOURCE_EXHAUSTED"), Response(403, "resource_exhausted"),
   Response(500, "busy"), Response(400, "busy")}
JitterSet == {0, 150, JitterRange - 1}

\* lines 74-87: the fetch settles; the call returns the parsed body, starts
\* a wait, or throws (a rejected fetch throws as well)
GeminiResponded ==
  /\ gemini # NotCalled
  /\ gemini.pc = "fetch"
  /\ \/ gemini' = [gemini EXCEPT !.pc = "threw", !.rejected = TRUE]
     \/ \E res \in GeminiResponses, jitter \in JitterSet :
          LET g == [gemini EXCEPT !.responses = Append(gemini.responses, res)]
          IN gemini' =
               IF res.ok
               THEN IF jsonParses(res.body)
                    THEN [g EXCEPT !.pc = "returned", !.value = res.body]
                    ELSE [g EXCEPT !.pc = "threw"]
               ELSE IF shouldRetry(res, g.attempt, g.maxRetries)
               THEN [g EXCEPT !.pc = "waiting",
                              !.waits = Append(g.waits, g.baseDelayMs * 2 ^ g.attempt + jitter)]
               ELSE [g EXCEPT !.pc = "threw"]
  /\ GeminiFrame

\* lines 82-84: the timer fires; attempt += 1 and the next POST is sent
GeminiWaited ==
  /\ gemini # NotCalled
  /\ gemini.pc = "waiting"
  /\ gemini' = [gemini EXCEPT !.attempt = gemini.attempt + 1, !.pc = "fetch"]
  /\ GeminiFrame

\* The options of the callers (lines 1130-1226), and absent options
MaxRetriesOptions == {0, 1, 2, 3}
BaseDelayOptions == {0, 800, 2000}

InitGemini ==
  /\ RestIdle
  /\ calls = NotCalled /\ cleanup = NotCalled /\ dedupe = NotCalled
  /\ restore = NotCalled /\ banner = NotCalled
  /\ \E m \in MaxRetriesOptions, b \in BaseDelayOptions :
       gemini = [pc |-> "fetch", maxRetries |-> optionOr(m, DefaultMaxRetries),
                 baseDelayMs |-> optionOr(b, DefaultBaseDelayMs), attempt |-> 0,
                 responses |-> <<>>, waits |-> <<>>, value |-> "", rejected |-> FALSE]

NextGemini == GeminiResponded \/ GeminiWaited

SpecGemini == InitGemini /\ [][NextGemini]_vars

\* Every fetch settles and every timer fires
SpecGeminiLive == SpecGemini /\ WF_vars(NextGemini)

GeminiEnded == gemini # NotCalled /\ gemini.pc \in {"returned", "threw"}
RequestsSent == Len(gemini.responses) + (IF gemini.pc = "fetch" \/ gemini.rejected THEN 1 ELSE 0)

GeminiBounded ==
  gemini # NotCalled =>
    /\ RequestsSent <= gemini.maxRetries + 1
    /\ gemini.pc = "returned" =>
         /\ gemini.responses[Len(gemini.responses)].ok
         /\ gemini.value = gemini.responses[Len(gemini.responses)].body
    /\ \A k \in 1..Len(gemini.responses) : gemini.responses[k].ok =>
         /\ k = Len(gemini.responses)
         /\ gemini.pc = IF jsonParses(gemini.responses[k].body) THEN "returned" ELSE "threw"
    /\ \A k \in 1..Len(gemini.waits) :
         /\ gemini.waits[k] >= gemini.baseDelayMs * 2 ^ (k - 1)
         /\ gemini.waits[k] < gemini.baseDelayMs * 2 ^ (k - 1) + 300

\* C28: postGeminiWithRetry terminates; it sends at most maxRetries + 1
\* POSTs, returns the parsed body of the first successful response and
\* throws when there is none (or when that body does not parse); the wait before retry k (from 0) is at least
\* baseDelayMs * 2^k and less than that plus 300 ms.
C28_RetryTerminates == [](GeminiBounded) /\ <>(GeminiEnded)

\* The call throws after maxRetries + 1 = 4 busy responses and three waits
C28_Witness ==
  /\ gemini # NotCalled
  /\ gemini.pc = "threw"
  /\ gemini.maxRetries = 3
  /\ Len(gemini.responses) = 4
  /\ gemini.waits = <<2000, 4150, 8299>>

\* C29: a wait and a further request follow only a response with status
\* 429 or 503 or a body that contains RESOURCE_EXHAUSTED (in any case of
\* letters); after any other unsuccessful response the call has thrown,
\* that response is its last, and no wait follows it.
Retryable(res) ==
  ~res.ok /\ (res.status \in {429, 503} \/ res.body \in {"RESOURCE_EXHAUSTED", "resource_exhausted"})
C29_RetryOnlyWhenBusy ==
  gemini # NotCalled =>
    /\ Len(gemini.waits) <= Len(gemini.responses)
    /\ \A k \in 1..Len(gemini.waits) : Retryable(gemini.responses[k])
    /\ \A k \in 1..Len(gemini.responses) :
         (~gemini.responses[k].ok /\ ~Retryable(gemini.responses[k])) =>
           /\ k = Len(gemini.responses)
           /\ gemini.pc = "threw"
           /\ Len(gemini.waits) = k - 1

\* The first response is a 429, the second a 400: one wait, then the throw
C29_Witness ==
  /\ gemini # NotCalled
  /\ gemini.pc = "threw"
  /\ Len(gemini.responses) = 2
  /\ gemini.responses[1].status = 429
  /\ gemini.responses[2].status = 400
  /\ Len(gemini.waits) = 1

\* ------------------------------------------------------------------------
\* Banner visibility: admin_settings row and banner_state.json
\* ------------------------------------------------------------------------
\* banner.db is the value of the row with key banner_visible, banner.file
\* the value of visible in banner_state.json; NoValue is an absent row or
\* file.  banner.lastSet is the argument of the last setBannerVisibility
\* that returned true and has not been followed by a get; banner.after and
\* banner.got describe the last getBannerVisibility, banner.readFailed
\* tells that it could not read the file.
NoValue == "none"
Visible == {"true", "false"}
Stored == Visible \cup {NoValue}

\* getBannerVisibilityFromFile: state.visible !== false, true without a
\* file and true when the file cannot be read
getBannerVisibilityFromFile(file, readOutcome) ==
  IF readOutcome = "ok" /\ file # NoValue THEN (IF file # "false" THEN "true" ELSE "false") ELSE "true"

\* .single() gives an error when there is no row
getQueryFails(db, outcome) == outcome # "data" \/ db = NoValue

\* data.value === 'true' || data.value === true
valueIsTrue(db) == IF db = "true" THEN "true" ELSE "false"

BannerFrame == UNCHANGED <<now, tz, engineVars, handlerVars, calls, cleanup, dedupe, restore, gemini>>

\* line 1400 / line 989: setBannerVisibility(visible) sends the check query
BannerSetStarted ==
  /\ banner.pc = "idle"
  /\ \E v \in Visible : banner' = [banner EXCEPT !.pc = "set-check", !.visible = v, !.lastSet = NoValue]
  /\ BannerFrame

\* setBannerVisibilityToFile, as the tail of a step of setBannerVisibility
setBannerVisibilityToFile(b, writeOutcome) ==
  IF writeOutcome = "ok"
  THEN [b EXCEPT !.pc = "idle", !.file = b.visible, !.lastSet = b.visible, !.setStore = "file"]
  ELSE [b EXCEPT !.pc = "idle", !.setStore = "threw"]

\* lines 992-1001: the check query settles
BannerSetChecked ==
  /\ banner.pc = "set-check"
  /\ \E outcome \in FetchOutcomes, writeOutcome \in {"ok", "fail"} :
       banner' = IF outcome = "data"
                 THEN [banner EXCEPT !.pc = "set-upsert"]
                 ELSE setBannerVisibilityToFile(banner, writeOutcome)
  /\ BannerFrame

\* lines 1004-1021: the upsert settles
BannerSetUpserted ==
  /\ banner.pc = "set-upsert"
  /\ \E outcome \in FetchOutcomes, writeOutcome \in {"ok", "fail"} :
       banner' = IF outcome = "data"
                 THEN [banner EXCEPT !.pc = "idle", !.db = banner.visible,
                                     !.lastSet = banner.visible, !.setStore = "db"]
                 ELSE setBannerVisibilityToFile(banner, writeOutcome)
  /\ BannerFrame

\* line 1393 / line 948: getBannerVisibility() sends its query
BannerGetStarted ==
  /\ banner.pc = "idle"
  /\ banner' = [banner EXCEPT !.pc = "get-query"]
  /\ BannerFrame

\* lines 951-967: the query settles and the call returns
BannerGetQueried ==
  /\ banner.pc = "get-query"
  /\ \E outcome \in FetchOutcomes, readOutcome \in {"ok", "fail"} :
       banner' = [banner EXCEPT
                    !.pc = "idle",
                    !.got = IF getQueryFails(banner.db, outcome)
                            THEN getBannerVisibilityFromFile(banner.file, readOutcome)
                            ELSE valueIsTrue(banner.db),
                    !.getStore = IF getQueryFails(banner.db, outcome) THEN "file" ELSE "db",
                    !.after = banner.lastSet,
                    !.readFailed = getQueryFails(banner.db, outcome) /\ readOutcome = "fail",
                    !.hadValue = banner.db # NoValue \/ banner.file # NoValue,
                    !.lastSet = NoValue]
  /\ BannerFrame

InitBanner ==
  /\ RestIdle
  /\ calls = NotCalled /\ cleanup = NotCalled /\ dedupe = NotCalled
  /\ restore = NotCalled /\ gemini = NotCalled
  /\ \E d \in Stored, f \in Stored :
       banner = [pc |-> "idle", db |-> d, file |-> f, visible |-> NoValue,
                 lastSet |-> NoValue, setStore |-> NoValue,
                 got |-> NoValue, getStore |-> NoValue, after |-> NoValue, readFailed |-> FALSE,
                 hadValue |-> FALSE]

NextBanner ==
  \/ BannerSetStarted
  \/ BannerSetChecked
  \/ BannerSetUpserted
  \/ BannerGetStarted
  \/ BannerGetQueried

SpecBanner == InitBanner /\ [][NextBanner]_vars

BannerGot == banner # NotCalled /\ banner.pc = "idle" /\ banner.got # NoValue

\* C30: the getBannerVisibility() that follows a setBannerVisibility(v)
\* which returned true returns v, whichever store each call used and
\* whichever database errors occurred (the file being readable); without
\* any stored value getBannerVisibility returns true.
C30_GetReturnsLastSet ==
  BannerGot =>
    /\ (banner.after # NoValue /\ ~banner.readFailed) => banner.got = banner.after
    /\ ~banner.hadValue => banner.got = "true"

====
